---------------------------- MODULE Spec2Model ----------------------------
(***************************************************************************)
(* Token Info Agent backend: the coin directory (CoinCache), the price     *)
(* cache (cachedFetch), the query parser (parseQuery) and the answer       *)
(* generator (generateAnswer, renderLine, renderMarkdown).                  *)
(*                                                                         *)
(* Strings are TLA+ strings; Ch(s, i) is the i-th character.  Numbers are   *)
(* fixed-point integers counting 1/Scale (so 1 is Scale), which is exact    *)
(* for the decimal literals and prices the model draws; the JavaScript      *)
(* values that are not finite numbers are the strings NaN, UNDEF and NULL,  *)
(* and the records FN (a function object) and OBJ (a plain object).         *)
(***************************************************************************)
EXTENDS Integers, Sequences, FiniteSets, TLC

(***************************************************************************)
(* Characters and strings                                                  *)
(***************************************************************************)
\* The i-th character of s; the empty string outside s.
Ch(s, i) == IF i >= 1 /\ i <= Len(s) THEN SubSeq(s, i, i) ELSE ""

Digits == {"0", "1", "2", "3", "4", "5", "6", "7", "8", "9"}

LowerLetters ==
  {"a", "b", "c", "d", "e", "f", "g", "h", "i", "j", "k", "l", "m",
   "n", "o", "p", "q", "r", "s", "t", "u", "v", "w", "x", "y", "z"}

UpperLetters ==
  {"A", "B", "C", "D", "E", "F", "G", "H", "I", "J", "K", "L", "M",
   "N", "O", "P", "Q", "R", "S", "T", "U", "V", "W", "X", "Y", "Z"}

\* String.prototype.toLowerCase / toUpperCase on one ASCII character.
LowerCh(c) ==
  CASE c = "A" -> "a" [] c = "B" -> "b" [] c = "C" -> "c" [] c = "D" -> "d"
    [] c = "E" -> "e" [] c = "F" -> "f" [] c = "G" -> "g" [] c = "H" -> "h"
    [] c = "I" -> "i" [] c = "J" -> "j" [] c = "K" -> "k" [] c = "L" -> "l"
    [] c = "M" -> "m" [] c = "N" -> "n" [] c = "O" -> "o" [] c = "P" -> "p"
    [] c = "Q" -> "q" [] c = "R" -> "r" [] c = "S" -> "s" [] c = "T" -> "t"
    [] c = "U" -> "u" [] c = "V" -> "v" [] c = "W" -> "w" [] c = "X" -> "x"
    [] c = "Y" -> "y" [] c = "Z" -> "z" [] OTHER -> c

UpperCh(c) ==
  CASE c = "a" -> "A" [] c = "b" -> "B" [] c = "c" -> "C" [] c = "d" -> "D"
    [] c = "e" -> "E" [] c = "f" -> "F" [] c = "g" -> "G" [] c = "h" -> "H"
    [] c = "i" -> "I" [] c = "j" -> "J" [] c = "k" -> "K" [] c = "l" -> "L"
    [] c = "m" -> "M" [] c = "n" -> "N" [] c = "o" -> "O" [] c = "p" -> "P"
    [] c = "q" -> "Q" [] c = "r" -> "R" [] c = "s" -> "S" [] c = "t" -> "T"
    [] c = "u" -> "U" [] c = "v" -> "V" [] c = "w" -> "W" [] c = "x" -> "X"
    [] c = "y" -> "Y" [] c = "z" -> "Z" [] OTHER -> c

RECURSIVE MapFrom(_, _, _)
\* s with every character from position i on mapped to lower (up = FALSE)
\* or upper (up = TRUE) case.
MapFrom(s, i, up) ==
  IF i > Len(s) THEN ""
  ELSE (IF up THEN UpperCh(Ch(s, i)) ELSE LowerCh(Ch(s, i))) \o MapFrom(s, i + 1, up)

toLowerCase(s) == MapFrom(s, 1, FALSE)

toUpperCase(s) == MapFrom(s, 1, TRUE)

\* The regular expression classes \d, \w, \s and [a-z0-9\-].
IsDigit(c) == c \in Digits

IsWordCh(c) == c \in Digits \cup LowerLetters \cup UpperLetters \cup {"_"}

IsSpace(c) == c \in {" ", "\t", "\n"}

IsTokenCh(c) == c \in Digits \cup LowerLetters \cup {"-"}

\* s has the literal lit at position i.
HasAt(s, i, lit) ==
  /\ i >= 1
  /\ i + Len(lit) - 1 <= Len(s)
  /\ SubSeq(s, i, i + Len(lit) - 1) = lit

RECURSIVE RunEnd(_, _, _)
\* The last position of the longest run of characters of class cls
\* ("d": \d, "w": \w, "s": \s, "p": [\d\.,], "t": [a-z0-9\-]) that starts at
\* position i; i - 1 when s has no such character at i.
RunEnd(s, i, cls) ==
  IF i > Len(s) THEN i - 1
  ELSE LET c == Ch(s, i)
           in_ == CASE cls = "d" -> IsDigit(c)
                    [] cls = "w" -> IsWordCh(c)
                    [] cls = "s" -> IsSpace(c)
                    [] cls = "p" -> IsDigit(c) \/ c \in {".", ","}
                    [] OTHER -> IsTokenCh(c)
       IN IF in_ THEN RunEnd(s, i + 1, cls) ELSE i - 1

Min2(a, b) == IF a <= b THEN a ELSE b

\* js-levenshtein: the Levenshtein edit distance of a and b (insertions,
\* deletions and substitutions, each of cost 1).
levenshtein(a, b) ==
  LET m == Len(a)
      n == Len(b)
      D[i \in 0..m, j \in 0..n] ==
        IF i = 0 THEN j
        ELSE IF j = 0 THEN i
        ELSE Min2(Min2(D[i - 1, j] + 1, D[i, j - 1] + 1),
                  D[i - 1, j - 1] + (IF Ch(a, i) = Ch(b, j) THEN 0 ELSE 1))
  IN D[m, n]

(***************************************************************************)
(* Program constants and tables                                            *)
(***************************************************************************)
CACHE_TTL == 30000

COIN_LIST_TTL == 24 * 3600000

\* The sanity floor of load(): the index must hold more than this many symbols.
COIN_LIST_FLOOR == 500

FIAT_CURRENCIES ==
  {"usd", "eur", "gbp", "inr", "jpy", "aud", "cad", "chf", "cny",
   "idr", "rub", "usdt", "usdc", "dai"}

\* Fixed-point scale of the model's numbers: the number 1 is Scale.
Scale == 100

NUMBER_WORDS ==
  [w \in {"zero", "one", "two", "three", "four", "five", "six", "seven",
          "eight", "nine", "ten", "eleven", "twelve", "thirteen",
          "fourteen", "fifteen", "sixteen", "seventeen", "eighteen",
          "nineteen", "twenty"} |->
     Scale *
     (CASE w = "zero" -> 0 [] w = "one" -> 1 [] w = "two" -> 2
        [] w = "three" -> 3 [] w = "four" -> 4 [] w = "five" -> 5
        [] w = "six" -> 6 [] w = "seven" -> 7 [] w = "eight" -> 8
        [] w = "nine" -> 9 [] w = "ten" -> 10 [] w = "eleven" -> 11
        [] w = "twelve" -> 12 [] w = "thirteen" -> 13
        [] w = "fourteen" -> 14 [] w = "fifteen" -> 15
        [] w = "sixteen" -> 16 [] w = "seventeen" -> 17
        [] w = "eighteen" -> 18 [] w = "nineteen" -> 19
        [] OTHER -> 20)]

TOKEN_ALIASES ==
  [k \in {"btc", "bitcoin", "bitcoins", "eth", "ethereum", "sol", "solana",
          "near", "ada", "doge", "bnb", "dot", "matic", "shib", "shiba",
          "xrp", "avax", "litecoin", "ltc", "bch", "bitcoin_cash"} |->
     CASE k \in {"btc", "bitcoin", "bitcoins"} -> "bitcoin"
       [] k \in {"eth", "ethereum"} -> "ethereum"
       [] k \in {"sol", "solana"} -> "solana"
       [] k = "near" -> "near"
       [] k = "ada" -> "cardano"
       [] k = "doge" -> "dogecoin"
       [] k = "bnb" -> "binancecoin"
       [] k = "dot" -> "polkadot"
       [] k = "matic" -> "matic-network"
       [] k \in {"shib", "shiba"} -> "shiba-inu"
       [] k = "xrp" -> "ripple"
       [] k = "avax" -> "avalanche-2"
       [] k \in {"litecoin", "ltc"} -> "litecoin"
       [] OTHER -> "bitcoin-cash"]

STOP_WORDS ==
  {"of", "in", "to", "the", "a", "an", "for", "and", "on", "with",
   "at", "by", "from", "as", "is", "was", "were", "are", "how",
   "what", "which", "when", "do", "does", "did", "please", "show",
   "give", "tell", "i", "you", "we", "they", "me", "my",
   "your", "our", "their", "can", "could", "should", "would", "will",
   "be", "been", "has", "have", "had", "that", "this", "it",
   "not", "but", "or", "so", "then", "if", "else", "also", "just",
   "price", "rice", "value"}

(***************************************************************************)
(* JavaScript values.  A value that may be of more than one JavaScript     *)
(* type is a record tagged with its typeof: Num(n) is the finite number    *)
(* n / Scale, Str(s) a string; a Coin is the record [id, symbol, name].    *)
(***************************************************************************)
NULL == [t |-> "null"]

UNDEF == [t |-> "undefined"]

NaN == [t |-> "nan"]

Num(n) == [t |-> "number", n |-> n]

Str(s) == [t |-> "string", s |-> s]

\* Object.prototype.constructor, the function Object.
FN == [t |-> "function"]

\* Object.prototype, a plain object.
OBJ == [t |-> "object"]

IsNum(v) == v.t = "number"

\* The properties every object literal inherits from Object.prototype whose
\* names are lower case (the tables are only read with lower-cased keys).
\* NUMBER_WORDS and TOKEN_ALIASES are object literals, so `k in TABLE` and
\* TABLE[k] see them beside the table's own keys.
ObjectPrototype == [k \in {"constructor", "__proto__"} |->
                      IF k = "constructor" THEN FN ELSE OBJ]

\* a ?? b
Coalesce(a, b) == IF a = UNDEF \/ a = NULL THEN b ELSE a

\* JavaScript truthiness of a value.
Truthy(v) ==
  CASE v.t = "number" -> v.n # 0
    [] v.t = "string" -> v.s # ""
    [] v.t \in {"null", "undefined", "nan"} -> FALSE
    [] OTHER -> TRUE

(***************************************************************************)
(* Maps (JavaScript Map): the entries in insertion order.  `more` counts   *)
(* further entries whose keys are the lower-cased symbols, ids and names   *)
(* of the upstream list's padding coins (see CoinLists): they are          *)
(* PadKeyLen characters long, so no reference of the model, none longer    *)
(* than PadKeyLen - 3, equals one or is at edit distance below 3 of one.   *)
(***************************************************************************)
EmptyMap == [entries |-> <<>>, more |-> 0]

MapHas(m, k) == \E i \in 1..Len(m.entries) : m.entries[i].k = k

\* Map.get: the value under k, or undefined.
MapGet(m, k) ==
  IF MapHas(m, k)
  THEN m.entries[CHOOSE i \in 1..Len(m.entries) : m.entries[i].k = k].v
  ELSE UNDEF

MapSet(m, k, v) ==
  IF MapHas(m, k)
  THEN [m EXCEPT !.entries =
          [i \in 1..Len(m.entries) |->
             IF m.entries[i].k = k THEN [k |-> k, v |-> v] ELSE m.entries[i]]]
  ELSE [m EXCEPT !.entries = Append(m.entries, [k |-> k, v |-> v])]

\* Map.size
MapSize(m) == Len(m.entries) + m.more

(***************************************************************************)
(* State                                                                   *)
(***************************************************************************)
VARIABLES
  clock,        \* Date.now(), in milliseconds
  bySymbol,     \* CoinCache.bySymbol
  byId,         \* CoinCache.byId
  byName,       \* CoinCache.byName
  lastUpdated,  \* CoinCache.lastUpdated
  loadPc,       \* per caller of load(): "idle" or "fetching" (awaiting the list)
  lastCall,     \* what the latest call of load() saw and did (history)
  found,        \* the latest call of find: its argument and its result (history)
  parsed,       \* the latest call of parseQuery: its input and its result (history)
  rendered,     \* the latest call of renderMarkdown: its lines and its result (history)
  formatted,    \* the latest call of formatPrice or renderLine and its result (history)
  priceCache,   \* priceCache: url -> [data, expiry]
  cf,           \* per caller of cachedFetch: idle, or awaiting its upstream fetch
  fetchLog,     \* the direct calls of cachedFetch in the order they began (history)
  srv,          \* the process: its phase and the offset of its time zone
  req           \* the request in progress: idle, inside generateAnswer, or done

dirVars == <<bySymbol, byId, byName, lastUpdated, loadPc, lastCall>>

\* The records of the latest calls of the pure functions.
callVars == <<found, parsed, rendered, formatted>>

\* The price cache and the calls of cachedFetch.
netVars == <<priceCache, cf, fetchLog>>

\* The server process and its requests.
srvVars == <<srv, req>>

(***************************************************************************)
(* Bounds and inputs                                                       *)
(***************************************************************************)
\* Date.now() when the process starts.  Any time later than COIN_LIST_TTL
\* after the epoch behaves alike (lastUpdated = 0 is then out of date); this
\* one keeps every time of the model within TLC's 32-bit integers.
StartClock == 1000000000

\* The clock advances at most this many times.
MaxTicks == 3

\* The callers of cachedFetch that can be in flight together.
MaxCallers == 2

\* The calls of cachedFetch in one behaviour.
MaxCalls == 2

\* The lines renderMarkdown is called with.
MaxLines == 2

\* The requests the server answers in one behaviour.
MaxRequests == 1

\* The requests the server answers one after the other on a warm cache.
MaxAsks == 2

\* The largest of the small numbers formatPrice is called with, in 1/Scale.
MaxCents == 120

\* Concurrent callers of load().
MaxLoaders == 2

\* The upstream coin list is a head of a few coins followed by this many
\* padding coins (distinct symbols, ids and names of PadKeyLen characters).
PadCoins == 498

BTC == [id |-> "bitcoin", symbol |-> "btc", name |-> "Bitcoin"]

DOGE == [id |-> "dogecoin", symbol |-> "doge", name |-> "Dogecoin"]

ETH == [id |-> "ethereum", symbol |-> "eth", name |-> "Ethereum"]

ETC == [id |-> "ethereum-classic", symbol |-> "etc", name |-> "Ethereum Classic"]

\* A second coin with the symbol btc, listed before bitcoin.
BATCAT == [id |-> "batcat", symbol |-> "btc", name |-> "BatCat"]

\* A coin with a two-letter symbol.
OM == [id |-> "mantra-dao", symbol |-> "om", name |-> "MANTRA"]

\* A coin the upstream lists in upper case.
XRP == [id |-> "ripple", symbol |-> "XRP", name |-> "XRP"]

\* The upstream coin lists: coins, then `more` padding coins.
CoinLists ==
  { [coins |-> cs, more |-> m] :
      cs \in { <<>>,
               <<BTC, DOGE, ETH>>,
               <<DOGE, ETC>>,
               <<BATCAT, BTC, ETH>>,
               <<XRP, BTC>>,
               <<OM, BTC, DOGE>> },
      m \in {0, PadCoins} }

(***************************************************************************)
(* CoinCache                                                               *)
(***************************************************************************)
\* if (!map.has(k)) map.set(k, c)
SetIfAbsent(m, k, c) == IF MapHas(m, k) THEN m ELSE MapSet(m, k, c)

RECURSIVE IndexCoins(_, _, _)
\* The loop of load() from coin i on, over the index idx.
IndexCoins(coins, i, idx) ==
  IF i > Len(coins) THEN idx
  ELSE LET c == coins[i]
           s == toLowerCase(c.symbol)
           id == toLowerCase(c.id)
           name == toLowerCase(c.name)
       IN IndexCoins(coins, i + 1,
            [bySymbol |-> SetIfAbsent(idx.bySymbol, s, c),
             byId |-> SetIfAbsent(idx.byId, id, c),
             byName |-> SetIfAbsent(idx.byName, name, c)])

\* The three maps after clear() and the loop over the upstream list.
BuildIndex(list) ==
  LET idx == IndexCoins(list.coins, 1,
               [bySymbol |-> EmptyMap, byId |-> EmptyMap, byName |-> EmptyMap])
  IN [bySymbol |-> [idx.bySymbol EXCEPT !.more = list.more],
      byId |-> [idx.byId EXCEPT !.more = list.more],
      byName |-> [idx.byName EXCEPT !.more = list.more]]

\* BuildIndex of every upstream list (evaluated once).
IndexOf == [list \in CoinLists |-> BuildIndex(list)]

\* Mutant of LaterThan: the comparison inverted.
LaterThanInverted(a, b, now) == a + b < now

\* The ordering test of load()'s guard: a + b > now.
LaterThan(a, b, now) == a + b > now

\* The guard of load(): the last load is younger than COIN_LIST_TTL and the
\* index holds more than COIN_LIST_FLOOR symbols.
IsFresh ==
  /\ LaterThan(lastUpdated, COIN_LIST_TTL, clock)
  /\ MapSize(bySymbol) > COIN_LIST_FLOOR

\* A caller enters load(): returns at once when the guard holds, else issues
\* the upstream fetch of the coin list and waits.
LoadCall(c) ==
  /\ loadPc[c] = "idle"
  /\ lastCall' = [at |-> clock,
                  loadedAt |-> lastUpdated,
                  size |-> MapSize(bySymbol),
                  fetched |-> ~IsFresh]
  /\ loadPc' = [loadPc EXCEPT ![c] = IF IsFresh THEN "idle" ELSE "fetching"]
  /\ UNCHANGED <<clock, bySymbol, byId, byName, lastUpdated, callVars, netVars, srvVars>>

\* The coin list arrives (res.ok): the maps are cleared and rebuilt, and
\* lastUpdated is set.
LoadOk(c, list) ==
  /\ loadPc[c] = "fetching"
  /\ LET idx == IndexOf[list]
     IN /\ bySymbol' = idx.bySymbol
        /\ byId' = idx.byId
        /\ byName' = idx.byName
  /\ lastUpdated' = clock
  /\ loadPc' = [loadPc EXCEPT ![c] = "idle"]
  /\ UNCHANGED <<clock, lastCall, callVars, netVars, srvVars>>

\* The fetch rejects or the response is not ok: load() throws.
LoadFail(c) ==
  /\ loadPc[c] = "fetching"
  /\ loadPc' = [loadPc EXCEPT ![c] = "idle"]
  /\ UNCHANGED <<clock, bySymbol, byId, byName, lastUpdated, lastCall, callVars, netVars, srvVars>>

\* The coins that come before the first entry that is no coin, in an upstream
\* list that holds such an entry.
Heads ==
  {<<>>} \cup {<<list.coins[1]>> : list \in {l \in CoinLists : Len(l.coins) > 0}}

\* The three maps after clear() and the loop over the coins of head
\* (evaluated once).
HeadIndexOf == [head \in Heads |-> BuildIndex([coins |-> head, more |-> 0])]

\* The coin list arrives (res.ok) with an entry after head whose symbol, id or
\* name is no string: the maps are cleared, the coins of head are indexed, and
\* toLowerCase() of the entry throws before lastUpdated is set.
LoadBroken(c, head) ==
  /\ loadPc[c] = "fetching"
  /\ bySymbol' = HeadIndexOf[head].bySymbol
  /\ byId' = HeadIndexOf[head].byId
  /\ byName' = HeadIndexOf[head].byName
  /\ loadPc' = [loadPc EXCEPT ![c] = "idle"]
  /\ UNCHANGED <<clock, lastUpdated, lastCall, callVars, netVars, srvVars>>

\* Mutant of AliasLookup: the alias key is looked up as a symbol.
AliasLookupBySymbol(cc, q) == MapGet(cc.bySymbol, q)

\* this.byId.get(TOKEN_ALIASES[q]): TOKEN_ALIASES[q] is an id for an own key
\* and a function or an object, which is no key of byId, for an inherited one.
AliasLookup(cc, q) ==
  IF q \in DOMAIN TOKEN_ALIASES THEN MapGet(cc.byId, TOKEN_ALIASES[q]) ELSE UNDEF

\* Mutant of FuzzyLimit: the threshold one too high.
FuzzyLimitFour == 3 + 1

\* The threshold the fuzzy scan starts from.
FuzzyLimit == 3

RECURSIVE FuzzyScanLast(_, _, _, _, _)
\* Mutant of FuzzyScan: a later symbol at the distance of the best replaces it.
FuzzyScanLast(cc, q, i, bestDist, bestCoin) ==
  IF i > Len(cc.bySymbol.entries) THEN bestCoin
  ELSE LET symbol == cc.bySymbol.entries[i].k
           dist == levenshtein(q, symbol)
       IN IF dist < bestDist \/ (dist = bestDist /\ bestCoin # NULL)
          THEN FuzzyScanLast(cc, q, i + 1, dist,
                             Coalesce(MapGet(cc.bySymbol, symbol), NULL))
          ELSE FuzzyScanLast(cc, q, i + 1, bestDist, bestCoin)

RECURSIVE FuzzyScan(_, _, _, _, _)
\* The fuzzy scan of find from entry i of bySymbol on.  The padding entries
\* come last and are at distance >= 3: they never replace the best.
FuzzyScan(cc, q, i, bestDist, bestCoin) ==
  IF i > Len(cc.bySymbol.entries) THEN bestCoin
  ELSE LET symbol == cc.bySymbol.entries[i].k
           dist == levenshtein(q, symbol)
       IN IF dist < bestDist
          THEN FuzzyScan(cc, q, i + 1, dist, Coalesce(MapGet(cc.bySymbol, symbol), NULL))
          ELSE FuzzyScan(cc, q, i + 1, bestDist, bestCoin)

\* Mutant of Normalize: the reference is used as written.
NormalizeNone(query) == query

\* query.toLowerCase() at the head of find.
Normalize(query) == toLowerCase(query)

\* CoinCache.find, on the maps of the cache cc.
findIn(cc, query) ==
  LET q == Normalize(query)
  IN IF q \in DOMAIN TOKEN_ALIASES \cup DOMAIN ObjectPrototype
     THEN Coalesce(AliasLookup(cc, q), NULL)
     ELSE LET exact == Coalesce(MapGet(cc.bySymbol, q),
                         Coalesce(MapGet(cc.byId, q),
                           Coalesce(MapGet(cc.byName, q), NULL)))
          IN IF exact # NULL THEN exact
             ELSE FuzzyScan(cc, q, 1, FuzzyLimit, NULL)

(***************************************************************************)
(* Numbers from text                                                       *)
(***************************************************************************)
DigitVal(c) ==
  CASE c = "0" -> 0 [] c = "1" -> 1 [] c = "2" -> 2 [] c = "3" -> 3
    [] c = "4" -> 4 [] c = "5" -> 5 [] c = "6" -> 6 [] c = "7" -> 7
    [] c = "8" -> 8 [] OTHER -> 9

RECURSIVE DigitsValue(_, _, _)
\* The integer the digits s[i..j] spell.
DigitsValue(s, i, j) ==
  IF j < i THEN 0 ELSE DigitsValue(s, i, j - 1) * 10 + DigitVal(Ch(s, j))

RECURSIVE FracValue(_, _, _, _)
\* The fraction digits s[i..j], in 1/Scale, the first digit worth unit
\* (digits finer than 1/Scale are dropped: the model's literals have none).
FracValue(s, i, j, unit) ==
  IF i > j \/ unit = 0 THEN 0
  ELSE DigitVal(Ch(s, i)) * unit + FracValue(s, i + 1, j, unit \div 10)

RECURSIVE Pow10(_)
Pow10(k) == IF k = 0 THEN 1 ELSE 10 * Pow10(k - 1)

\* parseFloat(s) for s with no leading blank or sign: the longest prefix
\* digits [. digits] [e digits], or NaN when s starts with no digit.
parseFloat(s) ==
  LET ie == RunEnd(s, 1, "d")
      hasDot == Ch(s, ie + 1) = "."
      me == IF hasDot THEN RunEnd(s, ie + 2, "d") ELSE ie
      frac == IF hasDot THEN FracValue(s, ie + 2, me, Scale \div 10) ELSE 0
      xe == IF Ch(s, me + 1) \in {"e", "E"} THEN RunEnd(s, me + 2, "d") ELSE me
      k == IF xe > me + 1 THEN DigitsValue(s, me + 2, xe) ELSE 0
  IN IF ie = 0 THEN NaN
     ELSE Num((DigitsValue(s, 1, ie) * Scale + frac) * Pow10(k))

\* Number(s) for a match s of \d+(\.\d+)?.
NumberOf(s) == parseFloat(s)

\* toNumber: NUMBER_WORDS[word.toLowerCase()] ?? null.  NUMBER_WORDS is an
\* object literal: a key it does not own is read from Object.prototype.
toNumber(word) ==
  LET k == toLowerCase(word)
  IN IF k \in DOMAIN NUMBER_WORDS THEN Num(NUMBER_WORDS[k])
     ELSE IF k \in DOMAIN ObjectPrototype THEN ObjectPrototype[k]
     ELSE NULL

\* a || b
OrElse(a, b) == IF Truthy(a) THEN a ELSE b

\* The amount of a conversion: parseFloat(m1) || toNumber(m1) || 1.
ConvertAmount(m1) == OrElse(parseFloat(m1), OrElse(toNumber(m1), Num(Scale)))

isValidWord(word) ==
  /\ Len(word) >= 2
  /\ toLowerCase(word) \notin STOP_WORDS
  /\ \A i \in 1..Len(word) : IsTokenCh(LowerCh(Ch(word, i)))

(***************************************************************************)
(* Regular expressions.  A pattern is the sequence of its items; in every  *)
(* pattern of the program a run is followed by \s+, by a character outside *)
(* its class, or by the end of the pattern, so the greedy run is the only  *)
(* one that can match and matching is a deterministic scan.                *)
(***************************************************************************)
NoMatch == [ok |-> FALSE, groups |-> <<>>]

\* The end of group (\d+\.?\d*|\w+) at position g when \s follows it; 0 when
\* neither alternative ends before a blank.
AmountGroupEnd(s, g) ==
  LET ie == RunEnd(s, g, "d")
      ne == IF ie >= g /\ Ch(s, ie + 1) = "." THEN RunEnd(s, ie + 2, "d") ELSE ie
      we == RunEnd(s, g, "w")
  IN IF ne >= g /\ IsSpace(Ch(s, ne + 1)) THEN ne
     ELSE IF we >= g /\ IsSpace(Ch(s, we + 1)) THEN we
     ELSE 0

\* The end of (\d+(\.\d+)?) at position g; g - 1 when no digit is there.
DecimalEnd(s, g) ==
  LET ie == RunEnd(s, g, "d")
  IN IF ie >= g /\ Ch(s, ie + 1) = "." /\ IsDigit(Ch(s, ie + 2))
     THEN RunEnd(s, ie + 2, "d")
     ELSE ie

\* The items that capture a group.
GroupItems == {"(\\d+\\.?\\d*|\\w+)", "(\\w+)", "(\\d+(\\.\\d+)?)", "([\\d\\.,]+)"}

\* The last position of the text that item matches at position pos; a
\* position before pos when it does not match there.
ItemEnd(s, pos, item) ==
  CASE item = "\\s+" -> RunEnd(s, pos, "s")
    [] item = "(\\w+)" -> RunEnd(s, pos, "w")
    [] item = "(\\d+\\.?\\d*|\\w+)" -> AmountGroupEnd(s, pos)
    [] item = "(\\d+(\\.\\d+)?)" -> DecimalEnd(s, pos)
    [] item = "([\\d\\.,]+)" -> RunEnd(s, pos, "p")
    [] OTHER -> IF HasAt(s, pos, item) THEN pos + Len(item) - 1 ELSE 0

RECURSIVE MatchItems(_, _, _, _, _)
RECURSIVE MatchRest(_, _, _, _, _, _)
\* The items from item k on matched at position pos, after the groups so far.
MatchItems(s, pos, items, k, groups) ==
  IF k > Len(items) THEN [ok |-> TRUE, groups |-> groups]
  ELSE MatchRest(s, pos, items, k, groups, ItemEnd(s, pos, items[k]))

\* Item k matched s[pos..e], or nothing when e < pos.
MatchRest(s, pos, items, k, groups, e) ==
  IF e < pos THEN NoMatch
  ELSE MatchItems(s, e + 1, items, k + 1,
                  IF items[k] \in GroupItems
                  THEN Append(groups, SubSeq(s, pos, e))
                  ELSE groups)

\* The match m when it is one, else the match other.
OrMatch(m, other) == IF m.ok THEN m ELSE other

RECURSIVE MatchFrom(_, _, _)
\* String.match of an unanchored pattern: the leftmost match from p on.
MatchFrom(s, p, items) ==
  IF p > Len(s) THEN NoMatch
  ELSE OrMatch(MatchItems(s, p, items, 1, <<>>), MatchFrom(s, p + 1, items))

\* convertPatterns:
\*   /convert\s+(\d+\.?\d*|\w+)\s+(\w+)\s+to\s+(\w+)/i
\*   /^(\d+\.?\d*|\w+)\s+(\w+)\s+to\s+(\w+)/i
\*   /how\s+much\s+is\s+(\d+\.?\d*|\w+)\s+(\w+)\s+in\s+(\w+)/i
ConvertGroups(sep) ==
  <<"(\\d+\\.?\\d*|\\w+)", "\\s+", "(\\w+)", "\\s+", sep, "\\s+", "(\\w+)">>

convertPatterns ==
  << [anchored |-> FALSE, items |-> <<"convert", "\\s+">> \o ConvertGroups("to")],
     [anchored |-> TRUE, items |-> ConvertGroups("to")],
     [anchored |-> FALSE,
      items |-> <<"how", "\\s+", "much", "\\s+", "is", "\\s+">> \o ConvertGroups("in")] >>

\* s.match(regex)
MatchPattern(s, regex) ==
  IF regex.anchored THEN MatchItems(s, 1, regex.items, 1, <<>>)
  ELSE MatchFrom(s, 1, regex.items)

RECURSIVE MatchConvert(_, _)
\* The match of the first conversion pattern from pattern k on that matches.
MatchConvert(s, k) ==
  IF k > Len(convertPatterns) THEN NoMatch
  ELSE OrMatch(MatchPattern(s, convertPatterns[k]), MatchConvert(s, k + 1))

\* /(\d{4}-\d{2}-\d{2})/ matches at position i.
DateAt(s, i) ==
  /\ i + 9 <= Len(s)
  /\ \A k \in {0, 1, 2, 3, 5, 6, 8, 9} : IsDigit(Ch(s, i + k))
  /\ Ch(s, i + 4) = "-"
  /\ Ch(s, i + 7) = "-"

\* The position of the leftmost date of s; 0 when s holds none.
DatePos(s) ==
  IF \E i \in 1..Len(s) : DateAt(s, i)
  THEN CHOOSE i \in 1..Len(s) : DateAt(s, i) /\ \A j \in 1..(i - 1) : ~DateAt(s, j)
  ELSE 0

\* \b between positions i - 1 and i of s.
Boundary(s, i) == IsWordCh(Ch(s, i - 1)) # IsWordCh(Ch(s, i))

RECURSIVE BackToBoundary(_, _, _)
\* The last position e in i..j with \b after it; 0 when there is none.
BackToBoundary(s, i, j) ==
  IF j < i THEN 0
  ELSE IF Boundary(s, j + 1) THEN j
  ELSE BackToBoundary(s, i, j - 1)

RECURSIVE WordsFrom(_, _)
\* s.match(/\b[a-z0-9\-]+\b/g) from position i on.
WordsFrom(s, i) ==
  IF i > Len(s) THEN <<>>
  ELSE LET e == IF IsTokenCh(Ch(s, i)) /\ Boundary(s, i)
                THEN BackToBoundary(s, i, RunEnd(s, i, "t"))
                ELSE 0
       IN IF e # 0 THEN <<SubSeq(s, i, e)>> \o WordsFrom(s, e + 1)
          ELSE WordsFrom(s, i + 1)

RECURSIVE LiteralsFrom(_, _)
\* s.match(/\d+(\.\d+)?/g) from position i on.
LiteralsFrom(s, i) ==
  IF i > Len(s) THEN <<>>
  ELSE IF ~IsDigit(Ch(s, i)) THEN LiteralsFrom(s, i + 1)
  ELSE LET ie == RunEnd(s, i, "d")
           e == IF Ch(s, ie + 1) = "." /\ IsDigit(Ch(s, ie + 2))
                THEN RunEnd(s, ie + 2, "d")
                ELSE ie
       IN <<SubSeq(s, i, e)>> \o LiteralsFrom(s, e + 1)

\* lower.match(/to\s+(\w+)/)
MatchTo(s) == MatchFrom(s, 1, <<"to", "\\s+", "(\\w+)">>)

(***************************************************************************)
(* parseQuery                                                              *)
(***************************************************************************)
\* tokens.find((c) => c.id === coin.id)
HasCoin(tokens, coin) == \E i \in 1..Len(tokens) : tokens[i].id = coin.id

RECURSIVE ResolveWords(_, _, _, _, _)
\* The loop over the words from word i on: fiat codes are collected as they
\* come, the other words are resolved by find and kept once per coin id.
ResolveWords(cc, words, i, tokens, fiats) ==
  IF i > Len(words) THEN [tokens |-> tokens, fiats |-> fiats]
  ELSE IF words[i] \in FIAT_CURRENCIES
  THEN ResolveWords(cc, words, i + 1, tokens, Append(fiats, words[i]))
  ELSE LET coin == findIn(cc, words[i])
       IN IF coin # NULL /\ ~HasCoin(tokens, coin)
          THEN ResolveWords(cc, words, i + 1, Append(tokens, coin), fiats)
          ELSE ResolveWords(cc, words, i + 1, tokens, fiats)

\* tokens after the default push of the coin btc that find("btc") returned.
PushDefault(tokens, btc) ==
  IF Len(tokens) = 0 /\ btc # NULL THEN <<btc>> ELSE tokens

\* if (tokens.length === 0) { const btc = find("btc"); if (btc) push }
DefaultToken(cc, tokens) == PushDefault(tokens, findIn(cc, "btc"))

\* if (fiats.length === 0) fiats.push("usd")
DefaultFiat(fiats) == IF Len(fiats) = 0 THEN <<"usd">> ELSE fiats

\* amounts after the push of num when it is not null.
PushAmount(amounts, num) == IF num # NULL THEN Append(amounts, num) ELSE amounts

RECURSIVE WordAmounts(_, _, _)
\* The amounts the words from word i on spell (toNumber(word) !== null).
WordAmounts(words, i, amounts) ==
  IF i > Len(words) THEN amounts
  ELSE WordAmounts(words, i + 1, PushAmount(amounts, toNumber(words[i])))

\* The raw amounts: the decimal literals lits of the text, else the number
\* words.
AmountsOf(lits, words) ==
  IF Len(lits) > 0 THEN [i \in 1..Len(lits) |-> NumberOf(lits[i])]
  ELSE WordAmounts(words, 1, <<>>)

RawAmounts(text, words) == AmountsOf(LiteralsFrom(text, 1), words)

\* Mutant of AlignAmounts: surplus amounts are kept.
AlignAmountsNoCut(amounts, n) ==
  IF Len(amounts) = 0 THEN [i \in 1..n |-> Num(Scale)]
  ELSE IF Len(amounts) = 1 /\ n > 1 THEN [i \in 1..n |-> amounts[1]]
  ELSE IF Len(amounts) < n
  THEN [i \in 1..n |-> IF i <= Len(amounts) THEN amounts[i] ELSE amounts[1]]
  ELSE amounts

\* The alignment of the raw amounts with n tokens.
AlignAmounts(amounts, n) ==
  IF Len(amounts) = 0 THEN [i \in 1..n |-> Num(Scale)]
  ELSE IF Len(amounts) = 1 /\ n > 1 THEN [i \in 1..n |-> amounts[1]]
  ELSE IF Len(amounts) < n
  THEN [i \in 1..n |-> IF i <= Len(amounts) THEN amounts[i] ELSE amounts[1]]
  ELSE IF Len(amounts) > n THEN SubSeq(amounts, 1, n)
  ELSE amounts

\* The currency override for the match m of /to\s+(\w+)/: its group when it
\* is a fiat code or resolves to a coin; "" (null) otherwise.
OverrideOf(cc, m) ==
  IF /\ m.ok
     /\ m.groups[1] # ""
     /\ (m.groups[1] \in FIAT_CURRENCIES \/ findIn(cc, m.groups[1]) # NULL)
  THEN m.groups[1]
  ELSE ""

OverrideCurrency(cc, lower) == OverrideOf(cc, MatchTo(lower))

\* The date of lower, whose leftmost date is at position dp (0: none).
DateOf(lower, dp) == IF dp = 0 THEN NULL ELSE Str(SubSeq(lower, dp, dp + 9))

\* lower.replace(date, " ")
WithoutDate(lower, dp) ==
  IF dp = 0 THEN lower
  ELSE SubSeq(lower, 1, dp - 1) \o " " \o SubSeq(lower, dp + 10, Len(lower))

\* The result of a price lookup from the tokens after the default push, the
\* fiats, the raw amounts and the override.
PriceQuery(tokens, fiats, raw, override, date) ==
  [type |-> "price",
   tokens |-> tokens,
   amounts |-> AlignAmounts(raw, Len(tokens)),
   currencies |-> IF override # "" THEN <<override>> ELSE fiats,
   date |-> date]

\* The price lookup from the resolved words r.
PriceResolved(cc, r, raw, override, date) ==
  PriceQuery(DefaultToken(cc, r.tokens), DefaultFiat(r.fiats), raw, override, date)

\* The price lookup from the valid words of the text without its date.
PriceWords(cc, lower, text, words, date) ==
  PriceResolved(cc, ResolveWords(cc, words, 1, <<>>, <<>>), RawAmounts(text, words),
                OverrideCurrency(cc, lower), date)

\* The price lookup from the text without its date.
PriceText(cc, lower, text, date) ==
  PriceWords(cc, lower, text, SelectSeq(WordsFrom(text, 1), isValidWord), date)

\* The price lookup parseQuery returns when no conversion pattern matches.
ParsePrice(cc, lower) ==
  PriceText(cc, lower, WithoutDate(lower, DatePos(lower)), DateOf(lower, DatePos(lower)))

\* The result for the match m of the first conversion pattern that matches,
\* or the price lookup when none does.
ParseMatched(cc, lower, m) ==
  IF m.ok
  THEN [type |-> "convert", amount |-> ConvertAmount(m.groups[1]),
        from |-> m.groups[2], to |-> m.groups[3]]
  ELSE ParsePrice(cc, lower)

\* parseQuery(input), its words resolved on the maps of the cache cc.
parseQueryIn(cc, input) ==
  ParseMatched(cc, toLowerCase(input), MatchConvert(toLowerCase(input), 1))

\* const coinCache = new CoinCache(): the three maps of the one instance.
coinCache == [bySymbol |-> bySymbol, byId |-> byId, byName |-> byName]

\* coinCache.find(query)
find(query) == findIn(coinCache, query)

\* parseQuery(input)
parseQuery(input) == parseQueryIn(coinCache, input)

(***************************************************************************)
(* The coin directory under any sequence of calls of load()                *)
(***************************************************************************)
NoCall == [at |-> 0, loadedAt |-> 0, size |-> 0, fetched |-> FALSE]

NoFind == [ref |-> "", coin |-> NULL]

NoParse == [input |-> "", result |-> [type |-> "none"]]

NoRender == [lines |-> <<>>, md |-> ""]

NoFormat == [call |-> "", num |-> UNDEF, amount |-> UNDEF, text |-> ""]

\* A caller that is not inside cachedFetch.
Idle == [pc |-> "idle"]

\* No call has been made yet.
NoCalls ==
  /\ found = NoFind
  /\ parsed = NoParse
  /\ rendered = NoRender
  /\ formatted = NoFormat
  /\ priceCache = EmptyMap
  /\ cf = [c \in 1..MaxCallers |-> Idle]
  /\ fetchLog = <<>>
  /\ srv = [phase |-> "starting", tz |-> 0, served |-> 0, status |-> 0]
  /\ req = Idle

DirInit ==
  /\ bySymbol = EmptyMap
  /\ byId = EmptyMap
  /\ byName = EmptyMap
  /\ lastUpdated = 0
  /\ loadPc = [c \in 1..MaxLoaders |-> "idle"]
  /\ lastCall = NoCall

DirTickStep == COIN_LIST_TTL \div 2

\* Time passes (half a directory TTL at a time).
DirTick ==
  /\ clock < StartClock + MaxTicks * DirTickStep
  /\ clock' = clock + DirTickStep
  /\ UNCHANGED <<dirVars, callVars, netVars, srvVars>>

vars == <<clock, dirVars, callVars, netVars, srvVars>>

LoadInit == clock = StartClock /\ DirInit /\ NoCalls

LoadNext ==
  \/ \E c \in 1..MaxLoaders : LoadCall(c)
  \/ \E c \in 1..MaxLoaders, list \in CoinLists : LoadOk(c, list)
  \/ \E c \in 1..MaxLoaders : LoadFail(c)
  \/ \E c \in 1..MaxLoaders, head \in Heads : LoadBroken(c, head)
  \/ DirTick

LoadSpec == LoadInit /\ [][LoadNext]_vars

(***************************************************************************)
(* find over every directory a load can leave                              *)
(***************************************************************************)
\* The references find is called with.
Refs ==
  {"btc", "BTC", "doge", "ETH", "etc", "ETC", "Etc", "batcat", "BatCat",
   "Ethereum Classic", "bth", "dogs", "etx", "ETX", "the", "xyz", "xyzxyz",
   "constructor"}

\* The directory as a completed load() of list at time StartClock left it.
Loaded(list) ==
  /\ LET idx == IndexOf[list]
     IN /\ bySymbol = idx.bySymbol
        /\ byId = idx.byId
        /\ byName = idx.byName
  /\ lastUpdated = StartClock
  /\ loadPc = [c \in 1..MaxLoaders |-> "idle"]
  /\ lastCall = NoCall

\* A call of find.
Find(ref) ==
  /\ found' = [ref |-> ref, coin |-> find(ref)]
  /\ UNCHANGED <<clock, dirVars, parsed, rendered, formatted, netVars, srvVars>>

FindInit ==
  /\ clock = StartClock
  /\ \E list \in CoinLists : Loaded(list)
  /\ NoCalls

FindNext == \E ref \in Refs : Find(ref)

FindSpec == FindInit /\ [][FindNext]_vars

(***************************************************************************)
(* parseQuery over every directory a load can leave                        *)
(***************************************************************************)
\* The texts parseQuery is called with.
Texts ==
  {"convert 10 doge to btc", "Convert 2.5 ETH to BTC", "convert 0 doge to btc",
   "convert zero doge to btc", "convert two doge to btc",
   "convert some doge to btc", "please convert 7 btc to doge now",
   "5 btc to eur", "how much is 3 eth in btc",
   "how much is 3 eth in btc or convert 4 doge to eth",
   "price of bitcoin", "xyzxyz", "qqqqqq", "constructor", "qqqqqq to eur-x",
   "price of bitcoin on 2023-06-01", "price of bitcoin on 2999-01-01",
   "xyzxyz on 2999-01-01", "price of 10 doge", "doge eth btc",
   "2 doge eth btc", "2 doge 3 eth btc xrp", "1 2 3 doge", "two doge",
   "doge in eur and usd", "price of doge to eur", "0.5 etc", "bth",
   "7 qqqqqq", "so btc to how much is 3 eth in doge"}

\* A call of parseQuery.
Parse(text) ==
  /\ parsed = NoParse
  /\ parsed' = [input |-> text, result |-> parseQuery(text)]
  /\ UNCHANGED <<clock, dirVars, found, rendered, formatted, netVars, srvVars>>

ParseInit ==
  /\ clock = StartClock
  /\ \E list \in CoinLists : Loaded(list)
  /\ NoCalls

ParseNext == \E text \in Texts : Parse(text)

ParseSpec == ParseInit /\ [][ParseNext]_vars

(***************************************************************************)
(* JSON payloads                                                           *)
(***************************************************************************)
\* An object with the own properties f (a record of values).
Obj(f) == [t |-> "object", f |-> f]

\* An array with the elements a.
Arr(a) == [t |-> "array", a |-> a]

(***************************************************************************)
(* cachedFetch                                                             *)
(***************************************************************************)
RECURSIVE Join(_, _)
\* parts.join(sep)
Join(parts, sep) ==
  IF Len(parts) = 0 THEN ""
  ELSE IF Len(parts) = 1 THEN parts[1]
  ELSE parts[1] \o sep \o Join(Tail(parts), sep)

\* The URLs, without the host and the parameters that never vary.
MarketsUrl(ids, vs_currency) ==
  "coins/markets?vs_currency=" \o vs_currency \o "&ids=" \o ids

SimplePriceUrl(ids, vs) == "simple/price?ids=" \o ids \o "&vs_currencies=" \o vs

\* fetchHistoricalPrice: date "yyyy-mm-dd" is sent as "dd-mm-yyyy".
HistoryUrl(tokenId, date) ==
  "coins/" \o tokenId \o "/history?date=" \o SubSeq(date, 9, 10) \o "-"
    \o SubSeq(date, 6, 7) \o "-" \o SubSeq(date, 1, 4)

\* Mutant of ExpiryOf: the entry expires as it is stored.
ExpiryAtOnce(now) == now

\* The expiry of the entry a call stores: CACHE_TTL after the clock it read
\* when it began.
ExpiryOf(now) == now + CACHE_TTL

\* cached && cached.expiry > now
CacheValid(cache, url, now) ==
  MapHas(cache, url) /\ MapGet(cache, url).expiry > now

\* The number of entries the calls of log have stored.
Stores(log) == Cardinality({i \in 1..Len(log) : log[i].storeNo > 0})

\* cachedFetch(url) by caller c up to its first await: a valid entry is
\* returned, otherwise the upstream fetch begins.
CachedFetchCall(c, url) ==
  /\ cf[c] = Idle
  /\ Len(fetchLog) < MaxCalls
  /\ IF CacheValid(priceCache, url, clock)
     THEN /\ fetchLog' = Append(fetchLog,
                [url |-> url, at |-> clock, hit |-> TRUE, state |-> "returned",
                 data |-> MapGet(priceCache, url).data, end |-> clock,
                 seen |-> Stores(fetchLog), storeNo |-> 0])
          /\ cf' = cf
     ELSE /\ fetchLog' = Append(fetchLog,
                [url |-> url, at |-> clock, hit |-> FALSE, state |-> "pending",
                 data |-> UNDEF, end |-> 0,
                 seen |-> Stores(fetchLog), storeNo |-> 0])
          /\ cf' = [cf EXCEPT ![c] = [pc |-> "fetching", url |-> url,
                                      now |-> clock, k |-> Len(fetchLog) + 1]]
  /\ priceCache' = priceCache
  /\ UNCHANGED <<clock, dirVars, callVars, srvVars>>

\* Mutant of FetchOk: an entry that is still valid is not overwritten.
FetchOkKeepsFirst(c, data) ==
  /\ cf[c].pc = "fetching"
  /\ priceCache' = IF CacheValid(priceCache, cf[c].url, cf[c].now) THEN priceCache
                    ELSE MapSet(priceCache, cf[c].url,
                                [data |-> data, expiry |-> ExpiryOf(cf[c].now)])
  /\ fetchLog' = [fetchLog EXCEPT ![cf[c].k] =
                    [@ EXCEPT !.state = "returned", !.data = data, !.end = clock,
                              !.storeNo = Stores(fetchLog) + 1]]
  /\ cf' = [cf EXCEPT ![c] = Idle]
  /\ UNCHANGED <<clock, dirVars, callVars, srvVars>>

\* The upstream fetch of caller c answers ok with the JSON value data: the
\* entry is stored and data returned.
FetchOk(c, data) ==
  /\ cf[c].pc = "fetching"
  /\ priceCache' = MapSet(priceCache, cf[c].url,
                          [data |-> data, expiry |-> ExpiryOf(cf[c].now)])
  /\ fetchLog' = [fetchLog EXCEPT ![cf[c].k] =
                    [@ EXCEPT !.state = "returned", !.data = data, !.end = clock,
                              !.storeNo = Stores(fetchLog) + 1]]
  /\ cf' = [cf EXCEPT ![c] = Idle]
  /\ UNCHANGED <<clock, dirVars, callVars, srvVars>>

\* Mutant of FetchFail: the call that throws stores an entry without data.
FetchFailStores(c) ==
  /\ cf[c].pc = "fetching"
  /\ priceCache' = MapSet(priceCache, cf[c].url,
                          [data |-> UNDEF, expiry |-> ExpiryOf(cf[c].now)])
  /\ fetchLog' = [fetchLog EXCEPT ![cf[c].k] =
                    [@ EXCEPT !.state = "threw", !.end = clock]]
  /\ cf' = [cf EXCEPT ![c] = Idle]
  /\ UNCHANGED <<clock, dirVars, callVars, srvVars>>

\* The upstream fetch of caller c rejects, answers with a status that is not
\* ok, or its body is no JSON: cachedFetch throws.
FetchFail(c) ==
  /\ cf[c].pc = "fetching"
  /\ fetchLog' = [fetchLog EXCEPT ![cf[c].k] =
                    [@ EXCEPT !.state = "threw", !.end = clock]]
  /\ cf' = [cf EXCEPT ![c] = Idle]
  /\ UNCHANGED <<clock, dirVars, callVars, priceCache, srvVars>>

CacheTickStep == CACHE_TTL \div 3

\* Time passes (a third of the cache TTL at a time).
CacheTick ==
  /\ clock < StartClock + MaxTicks * CacheTickStep
  /\ clock' = clock + CacheTickStep
  /\ UNCHANGED <<dirVars, callVars, netVars, srvVars>>

\* The URLs cachedFetch is called with and the payloads upstream answers.
CacheUrls ==
  {HistoryUrl("bitcoin", "2023-06-01"), MarketsUrl(Join(<<"dogecoin", "bitcoin">>, ","), "usd")}

CachePayloads == {Arr(<<>>), Obj([id |-> Str("bitcoin")])}

CacheInit == clock = StartClock /\ DirInit /\ NoCalls

CacheNext ==
  \/ \E c \in 1..MaxCallers, url \in CacheUrls : CachedFetchCall(c, url)
  \/ \E c \in 1..MaxCallers, data \in CachePayloads : FetchOk(c, data)
  \/ \E c \in 1..MaxCallers : FetchFail(c)
  \/ CacheTick

CacheSpec == CacheInit /\ [][CacheNext]_vars

(***************************************************************************)
(* Numbers to text.  A number is Num(n), n in 1/Scale; the quotients and   *)
(* products of the model are exact at that scale.                          *)
(***************************************************************************)
\* The digit d, 0 <= d <= 9.
DigitCh(d) == Ch("0123456789", d + 1)

RECURSIVE IntToStr(_)
\* The decimal digits of n >= 0.
IntToStr(n) ==
  IF n < 10 THEN DigitCh(n)
  ELSE IntToStr(n \div 10) \o DigitCh(n % 10)

RECURSIVE Grouped(_)
\* The digits of n >= 0 in groups of three (locale en-US).
Grouped(n) ==
  IF n < 1000 THEN IntToStr(n)
  ELSE Grouped(n \div 1000) \o "," \o DigitCh((n \div 100) % 10)
         \o DigitCh((n \div 10) % 10) \o DigitCh(n % 10)

\* The fraction f / Scale, 0 <= f < Scale, with both its digits.
Frac2(f) == DigitCh(f \div 10) \o DigitCh(f % 10)

\* The fraction f / Scale without trailing zeros, "" when it is 0.
FracShort(f) ==
  IF f = 0 THEN ""
  ELSE IF f % 10 = 0 THEN "." \o DigitCh(f \div 10)
  ELSE "." \o Frac2(f)

Abs(n) == IF n < 0 THEN 0 - n ELSE n

Sign(n) == IF n < 0 THEN "-" ELSE ""

\* String(v), as a template literal builds it.
StringOf(v) ==
  CASE v.t = "number" ->
         Sign(v.n) \o IntToStr(Abs(v.n) \div Scale) \o FracShort(Abs(v.n) % Scale)
    [] v.t = "string" -> v.s
    [] v.t = "nan" -> "NaN"
    [] v.t = "function" -> "function Object() { [native code] }"
    [] v.t = "object" -> "[object Object]"
    [] v.t = "array" -> ""
    [] OTHER -> v.t

\* n.toLocaleString(undefined, {minimumFractionDigits: 2, ...}), n in 1/Scale.
Localized2(n) ==
  Sign(n) \o Grouped(Abs(n) \div Scale) \o "." \o Frac2(Abs(n) % Scale)

\* v.toLocaleString() of a truthy value v: a number is grouped, with the
\* fraction digits it has; every other value converts by its own method.
toLocaleString(v) ==
  IF v.t = "number"
  THEN Sign(v.n) \o Grouped(Abs(v.n) \div Scale) \o FracShort(Abs(v.n) % Scale)
  ELSE StringOf(v)

\* Mutant of formatPrice: zero is shown as "N/A".
formatPriceZeroNA(num) ==
  IF num.t # "number" THEN "N/A"
  ELSE IF num.n >= Scale THEN Localized2(num.n)
  ELSE IF num.n = 0 THEN "N/A"
  ELSE Localized2(num.n)

\* n.toFixed(2)
toFixed2(n) == Sign(n) \o IntToStr(Abs(n) \div Scale) \o "." \o Frac2(Abs(n) % Scale)

formatPrice(num) ==
  IF num.t # "number" THEN "N/A"
  ELSE IF num.n >= Scale THEN Localized2(num.n)
  ELSE IF num.n = 0 THEN "0"
  ELSE Localized2(num.n)

\* a * b
Times(a, b) ==
  IF a.t = "number" /\ b.t = "number" THEN Num((a.n * b.n) \div Scale) ELSE NaN

(***************************************************************************)
(* renderLine and renderMarkdown                                           *)
(***************************************************************************)
\* `${datePart}${extra ? " " + extra : ""}`
LineTail(date, extra) ==
  (IF Truthy(date) THEN " (" \o date.s \o ")" ELSE "")
    \o (IF extra # "" THEN " " \o extra ELSE "")

renderLine(amount, coin, price, currency, date, extra) ==
  IF amount = Num(Scale)
  THEN toUpperCase(coin.symbol) \o " price: " \o formatPrice(price) \o " "
         \o toUpperCase(currency) \o LineTail(date, extra)
  ELSE StringOf(amount) \o " " \o toUpperCase(coin.symbol) \o " = "
         \o formatPrice(Times(price, amount)) \o " " \o toUpperCase(currency)
         \o LineTail(date, extra)

\* /^(\d+(\.\d+)?)\s+(\w+)\s+=\s+([\d\.,]+)\s+(\w+)/: its groups are m[1],
\* m[3], m[4] and m[5].
LinePattern ==
  <<"(\\d+(\\.\\d+)?)", "\\s+", "(\\w+)", "\\s+", "=", "\\s+", "([\\d\\.,]+)",
    "\\s+", "(\\w+)">>

\* Mutant of MarkdownRow: the columns in the order of the line.
MarkdownRowInLineOrder(line, m) ==
  IF m.ok
  THEN "| " \o m.groups[1] \o " | " \o m.groups[2] \o " | " \o m.groups[3]
         \o " | " \o m.groups[4] \o " |\n"
  ELSE "| " \o line \o " | | | |\n"

\* The row of a line whose match of the pattern is m.
MarkdownRow(line, m) ==
  IF m.ok
  THEN "| " \o m.groups[2] \o " | " \o m.groups[1] \o " | " \o m.groups[4]
         \o " | " \o m.groups[3] \o " |\n"
  ELSE "| " \o line \o " | | | |\n"

MarkdownHeader ==
  "| Token | Amount | Currency | Total Price |\n"
    \o "|-------|--------|----------|-------------|\n"

RECURSIVE MarkdownRows(_, _, _)
\* md after the rows of the lines from line i on.
MarkdownRows(lines, i, md) ==
  IF i > Len(lines) THEN md
  ELSE MarkdownRows(lines, i + 1,
         md \o MarkdownRow(lines[i], MatchItems(lines[i], 1, LinePattern, 1, <<>>)))

renderMarkdown(lines) == MarkdownRows(lines, 1, MarkdownHeader)

(***************************************************************************)
(* formatPrice and renderLine on their own                                 *)
(***************************************************************************)
\* The values formatPrice is called with: numbers below, at and above zero
\* and one, a large one, and values that are no finite number.
FormatInputs ==
  {Num(n) : n \in (0 - 3)..MaxCents} \cup {Num(1234567 * Scale), Num(0 - 250 * Scale)}
    \cup {NaN, NULL, UNDEF, Str("5"), OBJ}

\* A call of formatPrice.
Format(num) ==
  /\ formatted = NoFormat
  /\ formatted' = [call |-> "formatPrice", num |-> num, amount |-> UNDEF,
                   text |-> formatPrice(num)]
  /\ UNCHANGED <<clock, dirVars, found, parsed, rendered, netVars, srvVars>>

\* A call of renderLine without date and extra.
Line(amount, coin, price, currency) ==
  /\ formatted = NoFormat
  /\ formatted' = [call |-> "renderLine", num |-> price, amount |-> amount,
                   text |-> renderLine(amount, coin, price, currency, NULL, "")]
  /\ UNCHANGED <<clock, dirVars, found, parsed, rendered, netVars, srvVars>>

FormatInit == clock = StartClock /\ DirInit /\ NoCalls

FormatNext ==
  \/ \E num \in FormatInputs : Format(num)
  \/ \E amount \in {Num(0), Num(Scale), Num((5 * Scale) \div 2), Num(10 * Scale), FN},
        coin \in {BTC, DOGE},
        price \in {Num(Scale \div 10), Num(50 * Scale), NaN},
        currency \in {"usd", "eur"} :
       Line(amount, coin, price, currency)

FormatSpec == FormatInit /\ [][FormatNext]_vars

(***************************************************************************)
(* Reading upstream payloads                                               *)
(***************************************************************************)
Nullish(v) == v.t \in {"null", "undefined"}

\* v[k] for a value v that is not null or undefined.
Get(v, k) ==
  IF v.t = "object" /\ "f" \in DOMAIN v /\ k \in DOMAIN v.f THEN v.f[k] ELSE UNDEF

\* v?.[k]
OptGet(v, k) == IF Nullish(v) THEN UNDEF ELSE Get(v, k)

\* typeof v === "object"
TypeofObject(v) == v.t \in {"object", "array", "null"}

\* What evaluating an expression gives when it throws.
Thrown == [t |-> "thrown"]

RECURSIVE FindIn(_, _, _)
\* a.find((p) => p.id === id) from element i on.
FindIn(a, i, id) ==
  IF i > Len(a) THEN UNDEF
  ELSE IF Nullish(a[i]) THEN Thrown
  ELSE IF Get(a[i], "id") = Str(id) THEN a[i]
  ELSE FindIn(a, i + 1, id)

\* prices.find((p) => p.id === id): only an array has the method find.
FindRow(prices, id) ==
  IF prices.t = "array" THEN FindIn(prices.a, 1, id) ELSE Thrown

\* typeof cp === "object" ? cp?.[cur] : cp, for cp = row?.current_price
SafePrice(cp, cur) == IF TypeofObject(cp) THEN OptGet(cp, cur) ELSE cp

\* typeof cp === "object" ? cp[cur] : cp, for cp = row.current_price
PriceOf(cp, cur) ==
  IF ~TypeofObject(cp) THEN cp
  ELSE IF Nullish(cp) THEN Thrown
  ELSE Get(cp, cur)

\* typeof price !== "number" || !price || price <= 0
NoPrice(price) == price.t # "number" \/ price.n <= 0

\* v ? v.toLocaleString() : "N/A"
LocalizedOr(v) == IF Truthy(v) THEN toLocaleString(v) ELSE "N/A"

\* The character GREEK CAPITAL LETTER DELTA of the labels, written D.
Delta == "D"

\* `[MCap: ..., Vol: ..., 24h<Delta>: ...]` with the rendered change.
Extra(cap, vol, change) ==
  "[MCap: " \o LocalizedOr(cap) \o ", Vol: " \o LocalizedOr(vol) \o ", 24h"
    \o Delta \o ": " \o change \o "]"

\* change.toFixed(2) + "%": only a number has the method toFixed.
FixedPercent(change) ==
  CASE change.t = "number" -> Str(toFixed2(change.n) \o "%")
    [] change.t = "nan" -> Str("NaN%")
    [] OTHER -> Thrown

\* change ? change.toFixed(2) + "%" : "N/A"
ChangeIfTruthy(change) == IF Truthy(change) THEN FixedPercent(change) ELSE Str("N/A")

\* change !== null ? change.toFixed(2) + "%" : "N/A", for change = x ?? null
ChangeIfNotNull(x) == IF Nullish(x) THEN Str("N/A") ELSE FixedPercent(x)

(***************************************************************************)
(* The lines of an answer.  What a loop gives is [ok, lines]: ok is FALSE  *)
(* when an expression of its body threw.                                   *)
(***************************************************************************)
Lines(lines) == [ok |-> TRUE, lines |-> lines]

Throws == [ok |-> FALSE, lines |-> <<>>]

RECURSIVE HistCurrencies(_, _, _, _)
RECURSIVE HistCurrency(_, _, _, _, _, _)
\* The loop over the currencies from currency j on for the token and amount
\* of t, whose historical payload has the market data md.
HistCurrencies(t, md, j, lines) ==
  IF j > Len(t.currencies) THEN Lines(lines)
  ELSE HistCurrency(t, md, j, lines,
                    Get(Get(md, "current_price"), t.currencies[j]),
                    ChangeIfNotNull(Get(md, "price_change_percentage_24h")))

\* The body of that loop for currency j, its price and rendered change.
HistCurrency(t, md, j, lines, price, change) ==
  IF NoPrice(price)
  THEN HistCurrencies(t, md, j + 1,
         Append(lines, "No historical price for " \o toUpperCase(t.token.symbol)
                         \o " in " \o toUpperCase(t.currencies[j]) \o " on "
                         \o t.date \o "."))
  ELSE IF change = Thrown THEN Throws
  ELSE HistCurrencies(t, md, j + 1,
         Append(lines,
           renderLine(t.amount, t.token, price, t.currencies[j], Str(t.date),
                      Extra(OptGet(Get(md, "market_cap"), t.currencies[j]),
                            OptGet(Get(md, "total_volume"), t.currencies[j]),
                            change.s))))

\* !historicalData || !historicalData.market_data || !...current_price
NoMarketData(d) ==
  \/ ~Truthy(d)
  \/ ~Truthy(Get(d, "market_data"))
  \/ ~Truthy(Get(Get(d, "market_data"), "current_price"))

\* The lines pushed for the token of t, whose historical payload is d (null
\* when the fetch failed).
HistLines(t, d) ==
  IF NoMarketData(d)
  THEN Lines(<<"No historical data for " \o toUpperCase(t.token.symbol) \o " on "
                 \o t.date \o ".">>)
  ELSE HistCurrencies(t, Get(d, "market_data"), 1, <<>>)

RECURSIVE CurLines(_, _, _, _, _)
RECURSIVE CurRow(_, _, _, _, _, _)
RECURSIVE CurPrice(_, _, _, _, _, _, _)
RECURSIVE CurDetail(_, _, _, _, _, _, _, _)
\* The loops of the current-price path from token i and currency j on.
CurLines(q, prices, i, j, lines) ==
  IF i > Len(q.tokens) THEN Lines(lines)
  ELSE IF j > Len(q.currencies) THEN CurLines(q, prices, i + 1, 1, lines)
  ELSE CurRow(q, prices, i, j, lines, FindRow(prices, q.tokens[i].id))

\* The body of the loops for the row priceInfo that prices.find returned.
CurRow(q, prices, i, j, lines, priceInfo) ==
  IF priceInfo = Thrown THEN Throws
  ELSE IF ~Truthy(priceInfo) THEN CurLines(q, prices, i, j + 1, lines)
  ELSE CurPrice(q, prices, i, j, lines, priceInfo,
                PriceOf(Get(priceInfo, "current_price"), q.currencies[j]))

\* The body of the loops for the price read from the row.
CurPrice(q, prices, i, j, lines, priceInfo, price) ==
  IF price = Thrown THEN Throws
  ELSE IF NoPrice(price) THEN CurLines(q, prices, i, j + 1, lines)
  ELSE CurDetail(q, prices, i, j, lines, priceInfo, price,
                 ChangeIfTruthy(Get(priceInfo, "price_change_percentage_24h")))

\* The line pushed for a row with a price, and the rest of the loops.
CurDetail(q, prices, i, j, lines, priceInfo, price, change) ==
  IF change = Thrown THEN Throws
  ELSE CurLines(q, prices, i, j + 1,
         Append(lines,
           renderLine(q.amounts[i], q.tokens[i], price, q.currencies[j], NULL,
                      Extra(OptGet(Get(priceInfo, "market_cap"), q.currencies[j]),
                            OptGet(Get(priceInfo, "total_volume"), q.currencies[j]),
                            change.s))))

\* (priceFromUsd / priceToUsd) * amount
Converted(priceFromUsd, priceToUsd, amount) ==
  IF priceFromUsd.t = "number" /\ priceToUsd.t = "number" /\ amount.t = "number"
  THEN Num((priceFromUsd.n * amount.n) \div priceToUsd.n)
  ELSE NaN

\* The answer of a conversion from its two usd prices.
ConvertText(q, asMarkdown, priceFromUsd, priceToUsd) ==
  IF ~Truthy(priceFromUsd) \/ ~Truthy(priceToUsd)
  THEN "Conversion price unavailable."
  ELSE IF asMarkdown
  THEN "| From | Amount | To | Converted |\n|------|--------|----|-----------|\n| "
         \o toUpperCase(q.tokens[1].symbol) \o " | " \o StringOf(q.amounts[1])
         \o " | " \o toUpperCase(q.tokens[2].symbol) \o " | "
         \o formatPrice(Converted(priceFromUsd, priceToUsd, q.amounts[1])) \o " |"
  ELSE StringOf(q.amounts[1]) \o " " \o toUpperCase(q.tokens[1].symbol) \o " = "
         \o formatPrice(Converted(priceFromUsd, priceToUsd, q.amounts[1])) \o " "
         \o toUpperCase(q.tokens[2].symbol)

\* The answer of a conversion from the rows prices.find returned; Thrown when
\* a find threw.
ConvertRows(q, asMarkdown, priceFrom, priceTo) ==
  IF priceFrom = Thrown \/ priceTo = Thrown THEN Thrown
  ELSE Str(ConvertText(q, asMarkdown,
                       SafePrice(OptGet(priceFrom, "current_price"), "usd"),
                       SafePrice(OptGet(priceTo, "current_price"), "usd")))

(***************************************************************************)
(* renderMarkdown over lines of both kinds                                 *)
(***************************************************************************)
\* Lines that begin with an amount, a symbol, "=", a total and a currency.
TableLines ==
  { [amount |-> "2", symbol |-> "BTC", total |-> "100.00", currency |-> "USD",
     rest |-> ""],
    [amount |-> "0.5", symbol |-> "DOGE", total |-> "0.05", currency |-> "EUR",
     rest |-> " (2023-06-01) [MCap: N/A, Vol: N/A, 24hD: N/A]"],
    [amount |-> "10", symbol |-> "ETH", total |-> "1,234.50", currency |-> "USD",
     rest |-> " [MCap: 1,000, Vol: N/A, 24hD: 1.50%]"],
    [amount |-> "2.5", symbol |-> "DOGE", total |-> "0", currency |-> "USD",
     rest |-> ""] }

LineText(p) ==
  p.amount \o " " \o p.symbol \o " = " \o p.total \o " " \o p.currency \o p.rest

\* Lines that do not: a unit price, a message, a symbol or a total with a
\* character the pattern does not take, a leading blank, the empty line.
OtherLines ==
  { "BTC price: 50.00 USD",
    "No historical data for BTC on 2023-06-01.",
    "2 $MYRO = 1.00 USD",
    "2 BTC = N/A USD",
    "function Object() { [native code] } BTC = N/A USD",
    " 2 BTC = 100.00 USD",
    "2 BTC = -5.00 USD",
    "" }

RenderLines == {LineText(p) : p \in TableLines} \cup OtherLines

RECURSIVE LineSeqs(_)
\* The sequences of at most n lines.
LineSeqs(n) ==
  IF n = 0 THEN {<<>>}
  ELSE LineSeqs(n - 1)
         \cup {Append(ls, l) : ls \in {x \in LineSeqs(n - 1) : Len(x) = n - 1},
                               l \in RenderLines}

\* A call of renderMarkdown.
Render(lines) ==
  /\ rendered = NoRender
  /\ rendered' = [lines |-> lines, md |-> renderMarkdown(lines)]
  /\ UNCHANGED <<clock, dirVars, found, parsed, formatted, netVars, srvVars>>

RenderInit == clock = StartClock /\ DirInit /\ NoCalls

RenderNext == \E lines \in LineSeqs(MaxLines) : Render(lines)

RenderSpec == RenderInit /\ [][RenderNext]_vars

(***************************************************************************)
(* Dates.  clock counts the milliseconds since 00:00 UTC of the day        *)
(* EpochDay, so that the times of the model stay within 32 bits; a day is  *)
(* its number of days since 1970-01-01.                                    *)
(***************************************************************************)
\* The day number of the civil date y-m-d; a day past the end of its month
\* counts on into the next one.
DaysFromCivil(y, m, d) ==
  LET yy == IF m <= 2 THEN y - 1 ELSE y
      mp == IF m > 2 THEN m - 3 ELSE m + 9
      yoe == yy % 400
  IN (yy \div 400) * 146097 + yoe * 365 + yoe \div 4 - yoe \div 100
       + (153 * mp + 2) \div 5 + d - 1 - 719468

EpochDay == DaysFromCivil(2026, 1, 1)

MsPerDay == 24 * 3600000

\* new Date("yyyy-mm-dd") is a valid date.
ValidDate(date) ==
  /\ DigitsValue(date, 6, 7) \in 1..12
  /\ DigitsValue(date, 9, 10) \in 1..31

\* The day of new Date("yyyy-mm-dd"), which is 00:00 UTC of that day.
DayOf(date) ==
  DaysFromCivil(DigitsValue(date, 1, 4), DigitsValue(date, 6, 7),
                DigitsValue(date, 9, 10))

\* The local day of the time now, for a zone tz milliseconds east of UTC.
LocalDay(now, tz) == EpochDay + (now + tz) \div MsPerDay

\* -1, 0 or 1 as n is negative, zero or positive.
Signum(n) == IF n > 0 THEN 1 ELSE IF n < 0 THEN 0 - 1 ELSE 0

\* Mutant of LaterThanToday: a date counts as later from the day after
\* tomorrow on.
LaterThanTomorrow(date, now, tz) ==
  /\ ValidDate(date)
  /\ Signum(DayOf(date) - LocalDay(now, tz) - 1) * MsPerDay > 0 - tz

\* requestedDate > today, for today = 00:00 local time of the local day:
\* day * MsPerDay > localDay * MsPerDay - tz.  |tz| is less than a day, so a
\* difference of a day or more decides by its sign.
LaterThanToday(date, now, tz) ==
  /\ ValidDate(date)
  /\ Signum(DayOf(date) - LocalDay(now, tz)) * MsPerDay > 0 - tz

(***************************************************************************)
(* generateAnswer.  A request is a record: pc is "call" when it is about   *)
(* to call cachedFetch(url), "await" while that call awaits upstream, and  *)
(* "done" when generateAnswer has returned or raised (out).                *)
(***************************************************************************)
\* What generateAnswer raised, when it did not return a string.
Raised == [t |-> "raised"]

Call(rq, url) == [rq EXCEPT !.pc = "call", !.url = url]

Done(rq, out) == [rq EXCEPT !.pc = "done", !.out = out]

\* tokens.map((t) => t.id).join(",")
Ids(tokens) == Join([i \in 1..Len(tokens) |-> tokens[i].id], ",")

\* The request of a query q before its first fetch.
NewRequest(text, asMarkdown, q) ==
  [pc |-> "call", text |-> text, asMarkdown |-> asMarkdown, q |-> q,
   stage |-> "", i |-> 1, lines |-> <<>>, url |-> "", out |-> UNDEF, calls |-> <<>>]

\* Mutant of StartConvert: the target is tested before the source.
StartConvertTargetFirst(text, asMarkdown, pq, coinFrom, coinTo) ==
  IF pq.from = "" \/ pq.to = ""
  THEN Done(NewRequest(text, asMarkdown, pq), Str("Invalid conversion query."))
  ELSE IF coinTo = NULL
  THEN Done(NewRequest(text, asMarkdown, pq), Str("Unknown token: " \o pq.to))
  ELSE IF coinFrom = NULL
  THEN Done(NewRequest(text, asMarkdown, pq), Str("Unknown token: " \o pq.from))
  ELSE Call([NewRequest(text, asMarkdown,
                        [type |-> "convert", tokens |-> <<coinFrom, coinTo>>,
                         amounts |-> <<pq.amount>>, currencies |-> <<"usd">>,
                         date |-> NULL])
               EXCEPT !.stage = "markets"],
            MarketsUrl(Ids(<<coinFrom, coinTo>>), "usd"))

\* The conversion path up to fetchPrices, for the coins find returned.
StartConvert(text, asMarkdown, pq, coinFrom, coinTo) ==
  IF pq.from = "" \/ pq.to = ""
  THEN Done(NewRequest(text, asMarkdown, pq), Str("Invalid conversion query."))
  ELSE IF coinFrom = NULL
  THEN Done(NewRequest(text, asMarkdown, pq), Str("Unknown token: " \o pq.from))
  ELSE IF coinTo = NULL
  THEN Done(NewRequest(text, asMarkdown, pq), Str("Unknown token: " \o pq.to))
  ELSE Call([NewRequest(text, asMarkdown,
                        [type |-> "convert", tokens |-> <<coinFrom, coinTo>>,
                         amounts |-> <<pq.amount>>, currencies |-> <<"usd">>,
                         date |-> NULL])
               EXCEPT !.stage = "markets"],
            MarketsUrl(Ids(<<coinFrom, coinTo>>), "usd"))

\* The price paths up to their first fetch.
StartPrice(text, asMarkdown, pq, now, tz) ==
  IF Len(pq.tokens) = 0
  THEN Done(NewRequest(text, asMarkdown, pq),
            Str("No tokens recognized in your query."))
  ELSE IF pq.date = NULL
  THEN Call([NewRequest(text, asMarkdown, pq) EXCEPT !.stage = "markets"],
            MarketsUrl(Ids(pq.tokens), toLowerCase(pq.currencies[1])))
  ELSE IF LaterThanToday(pq.date.s, now, tz)
  THEN Done(NewRequest(text, asMarkdown, pq),
            Str("Cannot retrieve price for future date (" \o pq.date.s \o ")."))
  ELSE Call([NewRequest(text, asMarkdown, pq) EXCEPT !.stage = "history"],
            HistoryUrl(pq.tokens[1].id, pq.date.s))

\* generateAnswer from the result of parseQuery.
StartParsed(text, asMarkdown, pq, now, tz) ==
  IF pq.type = "convert"
  THEN StartConvert(text, asMarkdown, pq, find(pq.from), find(pq.to))
  ELSE StartPrice(text, asMarkdown, pq, now, tz)

\* The coin lists of the start-up load, the zones of the host (milliseconds
\* east of UTC) and the prompts of the requests.
ServerLists ==
  { [coins |-> <<BTC, DOGE, ETH>>, more |-> PadCoins],
    [coins |-> <<DOGE, ETC>>, more |-> PadCoins] }

TzOffsets == {0 - 5 * 3600000, 0, 11 * 1800000}

ServerTexts ==
  { "convert 10 btc to doge",
    "convert 10 doge to qqqqqq",
    "convert 2 zzzzzz to qqqqqq",
    "price of bitcoin on 2023-06-01",
    "price of bitcoin on 2999-01-01",
    "xyzxyz on 2999-01-01",
    "doge on 2026-01-13",
    "doge eth in eur and usd",
    "2 doge btc on 2026-01-12" }

\* parseQueryIn on the indexes of the server's lists, for each of its prompts
\* (evaluated once).
ParsedOn ==
  [list \in ServerLists |-> [text \in ServerTexts |-> parseQueryIn(IndexOf[list], text)]]

\* parseQuery(text), looked up in ParsedOn where it holds the answer.
ParseOnce(text, lists) ==
  IF lists # {} /\ text \in ServerTexts
  THEN ParsedOn[CHOOSE list \in lists : TRUE][text]
  ELSE parseQuery(text)

\* generateAnswer(query, asMarkdown) up to its first fetch.
Start(text, asMarkdown, now, tz) ==
  StartParsed(text, asMarkdown,
              ParseOnce(text, {list \in ServerLists : IndexOf[list] = coinCache}),
              now, tz)

\* asMarkdown ? renderMarkdown(lines) : lines.join("\n")
Rendered(rq, lines) ==
  IF rq.asMarkdown THEN renderMarkdown(lines) ELSE Join(lines, "\n")

\* The string of the catch block of the request's path.
ErrorText(rq) ==
  IF rq.q.type = "convert" THEN Str("Error fetching conversion price data.")
  ELSE Str("Error fetching price data.")

\* The rest of the current-price path for the lines r of its loops.
CurrentDone(rq, r) ==
  IF ~r.ok THEN Done(rq, ErrorText(rq))
  ELSE IF Len(r.lines) = 0 THEN Done(rq, Str("No price data found for your query."))
  ELSE Done(rq, Str(Rendered(rq, r.lines)))

\* The rest of the conversion path for the answer a, Thrown when a find threw.
ConvertDone(rq, a) == IF a = Thrown THEN Done(rq, ErrorText(rq)) ELSE Done(rq, a)

\* The rest of either path after fetchPrices returned prices.
Priced(rq, prices) ==
  IF rq.q.type = "convert"
  THEN ConvertDone(rq, ConvertRows(rq.q, rq.asMarkdown,
                                   FindRow(prices, rq.q.tokens[1].id),
                                   FindRow(prices, rq.q.tokens[2].id)))
  ELSE CurrentDone(rq, CurLines(rq.q, prices, 1, 1, <<>>))

RECURSIVE SetToSeq(_)
\* The elements of the set S in a sequence.
SetToSeq(S) ==
  IF S = {} THEN <<>>
  ELSE LET x == CHOOSE y \in S : TRUE IN <<x>> \o SetToSeq(S \ {x})

\* The row the fallback makes of the entry [id, val].
SimpleRow(id, val, vs_currency) ==
  Obj([id |-> Str(id),
       current_price |-> Get(val, vs_currency),
       market_cap |-> Get(val, "market_cap"),
       total_volume |-> Get(val, "total_volume"),
       price_change_percentage_24h |-> Get(val, "price_change_percentage_24h")])

\* Object.entries(data).map(...) of the fallback: it throws when data or one
\* of its values is null or undefined; a number or a boolean has no entries.
Reshape(data, vs_currency) ==
  IF Nullish(data) THEN Thrown
  ELSE IF data.t # "object" \/ "f" \notin DOMAIN data THEN Arr(<<>>)
  ELSE IF \E k \in DOMAIN data.f : Nullish(data.f[k]) THEN Thrown
  ELSE Arr([i \in 1..Cardinality(DOMAIN data.f) |->
              SimpleRow(SetToSeq(DOMAIN data.f)[i], data.f[SetToSeq(DOMAIN data.f)[i]],
                        vs_currency)])

\* The rest of the path after the fallback's reshaping gave prices.
Reshaped(rq, prices) ==
  IF prices = Thrown THEN Done(rq, ErrorText(rq)) ELSE Priced(rq, prices)

\* The token, amount, currencies and date of the historical loop's turn i.
Turn(rq) ==
  [token |-> rq.q.tokens[rq.i], amount |-> rq.q.amounts[rq.i],
   currencies |-> rq.q.currencies, date |-> rq.q.date.s]

\* The return of the historical path.
HistoryDone(rq) ==
  IF Len(rq.lines) > 0 THEN Done(rq, Str(Rendered(rq, rq.lines)))
  ELSE Done(rq, Str("No historical data for " \o rq.q.date.s \o "."))

\* The historical loop after its turn i pushed the lines r.
HistoryNext(rq, r) ==
  IF ~r.ok THEN Done(rq, Raised)
  ELSE IF rq.i = Len(rq.q.tokens)
  THEN HistoryDone([rq EXCEPT !.lines = rq.lines \o r.lines])
  ELSE Call([rq EXCEPT !.lines = rq.lines \o r.lines, !.i = rq.i + 1],
            HistoryUrl(rq.q.tokens[rq.i + 1].id, rq.q.date.s))

\* A cachedFetch that returned data, and one that threw.
Returned(data) == [ok |-> TRUE, data |-> data]

Threw == [ok |-> FALSE, data |-> UNDEF]

\* fetchPrices without its catch block: the failure of the markets call ends
\* the path with its error string.
StepNoFallback(rq, result) ==
  CASE rq.stage = "history" ->
         HistoryNext(rq, HistLines(Turn(rq), IF result.ok THEN result.data ELSE NULL))
    [] rq.stage = "markets" ->
         IF result.ok THEN Priced(rq, result.data) ELSE Done(rq, ErrorText(rq))
    [] OTHER ->
         IF result.ok
         THEN Reshaped(rq, Reshape(result.data, toLowerCase(rq.q.currencies[1])))
         ELSE Done(rq, ErrorText(rq))

\* The request after the cachedFetch it called or awaited ended with result:
\* fetchPrices falls back to the simple-price endpoint when the markets call
\* throws, fetchHistoricalPrice returns null when its call throws.
Step(rq, result) ==
  CASE rq.stage = "history" ->
         HistoryNext(rq, HistLines(Turn(rq), IF result.ok THEN result.data ELSE NULL))
    [] rq.stage = "markets" ->
         IF result.ok THEN Priced(rq, result.data)
         ELSE Call([rq EXCEPT !.stage = "simple"],
                   SimplePriceUrl(Ids(rq.q.tokens),
                                  toLowerCase(Join(rq.q.currencies, ","))))
    [] OTHER ->
         IF result.ok
         THEN Reshaped(rq, Reshape(result.data, toLowerCase(rq.q.currencies[1])))
         ELSE Done(rq, ErrorText(rq))


\* The request after the cachedFetch it called or awaited ended with result,
\* which it notes with the call.
Resume(rq, result) ==
  Step([rq EXCEPT !.calls[Len(rq.calls)].ok = result.ok], result)

\* The request notes a call of cachedFetch(url) and whether the cache served it.
Noted(rq, hit) ==
  [rq EXCEPT !.calls = Append(rq.calls, [url |-> rq.url, hit |-> hit, ok |-> hit])]

RECURSIVE Drive(_, _)
\* The request runs on from rq until it awaits upstream or is done; every
\* cachedFetch that the cache serves returns at once.
Drive(rq, cache) ==
  IF rq.pc # "call" THEN rq
  ELSE IF CacheValid(cache, rq.url, clock)
  THEN Drive(Resume(Noted(rq, TRUE), Returned(MapGet(cache, rq.url).data)), cache)
  ELSE [Noted(rq, FALSE) EXCEPT !.pc = "await"]

(***************************************************************************)
(* The server: the start-up load, then requests through generateAnswer.    *)
(* A request runs without interruption from one await of an upstream       *)
(* response to the next.                                                   *)
(***************************************************************************)
\* Upstream prices, in 1/Scale: a euro is worth 5/4 dollar.
UsdPrice(id) ==
  CASE id = "bitcoin" -> 50 * Scale
    [] id = "dogecoin" -> Scale \div 10
    [] id = "ethereum" -> 25 * Scale
    [] OTHER -> Scale

PriceIn(id, currency) ==
  IF currency = "eur" THEN (UsdPrice(id) * 4) \div 5 ELSE UsdPrice(id)

\* A row of the markets endpoint, priced in vs_currency.
MarketRow(id, vs_currency, change) ==
  Obj([id |-> Str(id),
       current_price |-> Num(PriceIn(id, vs_currency)),
       market_cap |-> Num(1234567 * Scale),
       total_volume |-> Num(7654 * Scale),
       price_change_percentage_24h |-> change])

MarketRows(q, change) ==
  Arr([i \in 1..Len(q.tokens) |->
         MarketRow(q.tokens[i].id, toLowerCase(q.currencies[1]), change)])

\* The bodies upstream can answer a markets request with: the rows asked
\* for, no row, an error object, and rows whose change is a string.
MarketsPayloads(q) ==
  { MarketRows(q, Num((3 * Scale) \div 2)),
    Arr(<<>>),
    Obj([error |-> Str("rate limited")]),
    MarketRows(q, Str("1.5")) }

\* The bodies of a simple-price request: the prices asked for, and null.
SimplePayloads(q) ==
  { Obj([id \in {q.tokens[i].id : i \in 1..Len(q.tokens)} |->
           Obj([c \in {q.currencies[j] : j \in 1..Len(q.currencies)} |->
                  Num(PriceIn(id, c))])]),
    NULL }

\* The market data of a historical payload.
MarketData(id) ==
  [current_price |-> Obj([usd |-> Num(PriceIn(id, "usd")), eur |-> Num(PriceIn(id, "eur"))]),
   market_cap |-> Obj([usd |-> Num(1234567 * Scale)]),
   total_volume |-> Obj([usd |-> Num(7654 * Scale)])]

\* The bodies of a history request: market data, none for that day, and
\* market data that carries a change which is a string.
HistoryPayloads(id) ==
  { Obj([id |-> Str(id), market_data |-> Obj(MarketData(id))]),
    Obj([id |-> Str(id)]),
    Obj([id |-> Str(id),
         market_data |-> Obj([current_price |-> Obj([usd |-> Num(PriceIn(id, "usd"))]),
                              price_change_percentage_24h |-> Str("1.5")])]) }

\* The bodies upstream can answer the awaited fetch of rq with.
PayloadsFor(rq) ==
  CASE rq.stage = "history" -> HistoryPayloads(rq.q.tokens[rq.i].id)
    [] rq.stage = "markets" -> MarketsPayloads(rq.q)
    [] OTHER -> SimplePayloads(rq.q)

\* await coinCache.load() of the start-up returned: the server listens.
Serve ==
  /\ srv.phase = "starting"
  /\ loadPc[1] = "idle"
  /\ lastUpdated # 0
  /\ srv' = [srv EXCEPT !.phase = "serving"]
  /\ UNCHANGED <<clock, dirVars, callVars, netVars, req>>

\* await coinCache.load() of the start-up threw: the process ends.
Crash ==
  /\ srv.phase = "starting"
  /\ loadPc[1] = "idle"
  /\ lastCall # NoCall
  /\ lastUpdated = 0
  /\ srv' = [srv EXCEPT !.phase = "crashed"]
  /\ UNCHANGED <<clock, dirVars, callVars, netVars, req>>

\* The request has run on to rq, with the price cache left as cache.
Settle(cache, rq) ==
  /\ req' = rq
  /\ priceCache' = cache
  /\ cf' = [cf EXCEPT ![1] =
              IF rq.pc = "await"
              THEN [pc |-> "fetching", url |-> rq.url, now |-> clock, k |-> 0]
              ELSE Idle]
  /\ UNCHANGED <<clock, dirVars, callVars, fetchLog, srv>>

\* generateAnswer(text, asMarkdown) up to its first await.
Arrive(text, asMarkdown) ==
  /\ srv.phase = "serving"
  /\ req = Idle
  /\ Settle(priceCache, Drive(Start(text, asMarkdown, clock, srv.tz), priceCache))

\* A request arrives.
Request(text, asMarkdown) ==
  /\ srv.served < MaxRequests
  /\ Arrive(text, asMarkdown)

\* The request after its cachedFetch stored data in the cache and returned it.
Continue(data, cache) ==
  Settle(cache, Drive(Resume(req, Returned(data)), cache))

\* The upstream fetch of the request answers ok with the JSON value data.
UpstreamOk(data) ==
  /\ req.pc = "await"
  /\ data \in PayloadsFor(req)
  /\ Continue(data, MapSet(priceCache, cf[1].url,
                           [data |-> data, expiry |-> ExpiryOf(cf[1].now)]))

\* The upstream fetch of the request rejects, answers with a status that is
\* not ok, or its body is no JSON: its cachedFetch throws.
UpstreamFail ==
  /\ req.pc = "await"
  /\ Settle(priceCache, Drive(Resume(req, Threw), priceCache))

\* The handler answers: 200 with the string generateAnswer returned, 500
\* "Internal server error." when generateAnswer raised.
Reply ==
  /\ req.pc = "done"
  /\ srv' = [srv EXCEPT !.served = srv.served + 1,
                        !.status = IF req.out = Raised THEN 500 ELSE 200]
  /\ req' = Idle
  /\ UNCHANGED <<clock, dirVars, callVars, netVars>>

Init ==
  /\ clock = StartClock
  /\ DirInit
  /\ found = NoFind
  /\ parsed = NoParse
  /\ rendered = NoRender
  /\ formatted = NoFormat
  /\ priceCache = EmptyMap
  /\ cf = [c \in 1..MaxCallers |-> Idle]
  /\ fetchLog = <<>>
  /\ srv \in {[phase |-> "starting", tz |-> tz, served |-> 0, status |-> 0] :
                tz \in TzOffsets}
  /\ req = Idle

Next ==
  \/ srv.phase = "starting" /\ lastCall = NoCall /\ LoadCall(1)
  \/ \E list \in ServerLists : LoadOk(1, list)
  \/ LoadFail(1)
  \/ \E head \in Heads : LoadBroken(1, head)
  \/ Serve
  \/ Crash
  \/ \E text \in ServerTexts, asMarkdown \in BOOLEAN : Request(text, asMarkdown)
  \/ req.pc = "await" /\ \E data \in PayloadsFor(req) : UpstreamOk(data)
  \/ UpstreamFail
  \/ Reply
  \/ srv.phase = "serving" /\ CacheTick

Spec == Init /\ [][Next]_vars

(***************************************************************************)
(* fetchPrices: current prices and conversions asked of a server that      *)
(* listens, one after the other, so that a later request finds the         *)
(* responses of an earlier one in the price cache.                         *)
(***************************************************************************)
PriceTexts == {"doge eth in eur and usd", "convert 10 btc to doge"}

\* A request for current prices or a conversion arrives.
Ask(text, asMarkdown) ==
  /\ srv.served < MaxAsks
  /\ Arrive(text, asMarkdown)

PricesInit ==
  /\ clock = StartClock
  /\ Loaded([coins |-> <<BTC, DOGE, ETH>>, more |-> PadCoins])
  /\ found = NoFind
  /\ parsed = NoParse
  /\ rendered = NoRender
  /\ formatted = NoFormat
  /\ priceCache = EmptyMap
  /\ cf = [c \in 1..MaxCallers |-> Idle]
  /\ fetchLog = <<>>
  /\ srv = [phase |-> "serving", tz |-> 0, served |-> 0, status |-> 0]
  /\ req = Idle

PricesNext ==
  \/ \E text \in PriceTexts, asMarkdown \in BOOLEAN : Ask(text, asMarkdown)
  \/ req.pc = "await" /\ \E data \in PayloadsFor(req) : UpstreamOk(data)
  \/ UpstreamFail
  \/ Reply
  \/ CacheTick

PricesSpec == PricesInit /\ [][PricesNext]_vars

(***************************************************************************)
(* The server over days: the start-up load, then requests while time       *)
(* passes half a directory TTL at a time.  load() has the one caller of    *)
(* the start-up.                                                           *)
(***************************************************************************)
UptimeList == [coins |-> <<BTC, DOGE, ETH>>, more |-> PadCoins]

UptimeInit ==
  /\ clock = StartClock
  /\ DirInit
  /\ found = NoFind
  /\ parsed = NoParse
  /\ rendered = NoRender
  /\ formatted = NoFormat
  /\ priceCache = EmptyMap
  /\ cf = [c \in 1..MaxCallers |-> Idle]
  /\ fetchLog = <<>>
  /\ srv = [phase |-> "starting", tz |-> 0, served |-> 0, status |-> 0]
  /\ req = Idle

UptimeNext ==
  \/ srv.phase = "starting" /\ lastCall = NoCall /\ LoadCall(1)
  \/ LoadOk(1, UptimeList)
  \/ LoadFail(1)
  \/ Serve
  \/ Crash
  \/ \E text \in PriceTexts, asMarkdown \in BOOLEAN : Ask(text, asMarkdown)
  \/ req.pc = "await" /\ \E data \in PayloadsFor(req) : UpstreamOk(data)
  \/ UpstreamFail
  \/ Reply
  \/ srv.phase = "serving" /\ DirTick

UptimeSpec == UptimeInit /\ [][UptimeNext]_vars

(***************************************************************************)
(* Claims                                                                  *)
(***************************************************************************)
\* The latest call of load() was made after a successful load and less than
\* COIN_LIST_TTL after it.
CalledWithinTtl ==
  /\ lastCall.loadedAt > 0
  /\ lastCall.at - lastCall.loadedAt < COIN_LIST_TTL

\* C3 as stated: a call of load() made within COIN_LIST_TTL of a successful
\* load issues no upstream coin-list fetch, whatever list was loaded.
C3_SecondLoadNeverFetches == CalledWithinTtl => ~lastCall.fetched

\* C3 amended: a call of load() made within COIN_LIST_TTL of a successful
\* load issues no upstream fetch when the index holds more than
\* COIN_LIST_FLOOR symbols, and fetches the list again when it holds
\* COIN_LIST_FLOOR symbols or fewer.
C3_SecondLoadFetchesIffSmall ==
  CalledWithinTtl => (lastCall.fetched <=> lastCall.size <= COIN_LIST_FLOOR)

C3_Witness ==
  /\ CalledWithinTtl
  /\ lastCall.at > lastCall.loadedAt
  /\ lastCall.size > COIN_LIST_FLOOR
  /\ ~lastCall.fetched

\* The reference of the latest find is no alias key and has no exact symbol,
\* id or name match: find goes on to the fuzzy scan.
ReachesFuzzyScan ==
  LET q == toLowerCase(found.ref)
  IN /\ found.ref # ""
     /\ q \notin DOMAIN TOKEN_ALIASES
     /\ ~MapHas(bySymbol, q)
     /\ ~MapHas(byId, q)
     /\ ~MapHas(byName, q)

\* The edit distances from the lower-cased reference of the latest find to
\* the symbols of the directory (the padding symbols are at distance >= 3).
SymbolDistances ==
  { levenshtein(toLowerCase(found.ref), bySymbol.entries[i].k) :
      i \in 1..Len(bySymbol.entries) }

\* C6: a reference that reaches the fuzzy scan resolves to none whenever
\* every known symbol is at edit distance 3 or more from it.
C6_NoneWhenAllSymbolsFar ==
  (ReachesFuzzyScan /\ \A d \in SymbolDistances : d >= 3) => found.coin = NULL

C6_Witness ==
  /\ ReachesFuzzyScan
  /\ 3 \in SymbolDistances
  /\ \A d \in SymbolDistances : d >= 3
  /\ found.coin = NULL

\* The reference of the latest find equals, up to letter case, an alias key
\* or a symbol, id or name of the directory.
ExactRef ==
  LET q == toLowerCase(found.ref)
  IN /\ found.ref # ""
     /\ \/ q \in DOMAIN TOKEN_ALIASES
        \/ MapHas(bySymbol, q)
        \/ MapHas(byId, q)
        \/ MapHas(byName, q)

\* C7: for a reference with an exact alias, symbol, id or name match, find
\* returns the same coin for every casing of the reference.
C7_ExactMatchIgnoresCase ==
  ExactRef =>
    \A r \in Refs :
      toLowerCase(r) = toLowerCase(found.ref) => find(r) = found.coin

C7_Witness ==
  /\ ExactRef
  /\ found.ref # toLowerCase(found.ref)
  /\ toLowerCase(found.ref) \notin DOMAIN TOKEN_ALIASES
  /\ found.coin # NULL

\* C1: every price lookup parseQuery returns has as many amounts as tokens,
\* whatever the numbers and tokens of the text and whether or not the
\* directory lists bitcoin.
C1_AmountsMatchTokens ==
  parsed.result.type = "price" =>
    Len(parsed.result.amounts) = Len(parsed.result.tokens)

\* A text with a decimal literal parsed over a directory without bitcoin, in
\* which nothing resolves: the amount is cut away with the token list empty.
C1_Witness ==
  /\ parsed.result.type = "price"
  /\ ~MapHas(byId, "bitcoin")
  /\ Len(LiteralsFrom(toLowerCase(parsed.input), 1)) > 0
  /\ parsed.result.tokens = <<>>
  /\ parsed.result.amounts = <<>>

\* The words of the latest input that parseQuery tries to resolve.
ParsedWords ==
  SelectSeq(WordsFrom(WithoutDate(toLowerCase(parsed.input),
                                  DatePos(toLowerCase(parsed.input))), 1),
            isValidWord)

\* Some conversion pattern matches the latest input.
SomePatternMatches ==
  \E k \in 1..Len(convertPatterns) :
    MatchPattern(toLowerCase(parsed.input), convertPatterns[k]).ok

\* The latest input matches no conversion pattern, none of its words resolves
\* to a coin, is a fiat code or spells a number, it holds no digit, and the
\* word after "to", if any, is no fiat code and resolves to no coin.
NothingRecognizable ==
  /\ parsed.input # ""
  /\ ~SomePatternMatches
  /\ \A w \in {ParsedWords[i] : i \in DOMAIN ParsedWords} :
       /\ find(w) = NULL
       /\ w \notin FIAT_CURRENCIES
       /\ w \notin DOMAIN NUMBER_WORDS
  /\ \A i \in 1..Len(parsed.input) : ~IsDigit(Ch(parsed.input, i))
  /\ OverrideCurrency(coinCache, toLowerCase(parsed.input)) = ""

\* C8, over the directories that list bitcoin: an input with nothing
\* recognizable parses to a price lookup of 1 bitcoin in usd.
C8_DefaultsToOneBitcoinUsd ==
  (NothingRecognizable /\ MapHas(byId, "bitcoin")) =>
    /\ parsed.result.type = "price"
    /\ parsed.result.tokens = <<MapGet(byId, "bitcoin")>>
    /\ parsed.result.amounts = <<Num(Scale)>>
    /\ parsed.result.currencies = <<"usd">>

\* Decimal literals and their values, in 1/Scale.
DecimalAmounts == {<<"10", 10 * Scale>>, <<"2.5", (5 * Scale) \div 2>>, <<"7", 7 * Scale>>,
                   <<"0", 0>>, <<"5", 5 * Scale>>}

ConvertTokens == {"doge", "btc", "eth"}

\* The latest result is the conversion the match m gives.
ConversionOf(m) ==
  /\ parsed.result.type = "convert"
  /\ parsed.result.from = m.groups[2]
  /\ parsed.result.to = m.groups[3]

\* C9: "convert AMOUNT TOK1 to TOK2" with a decimal AMOUNT parses to the
\* conversion of that amount from TOK1 to TOK2, and whenever a conversion
\* pattern matches the result is the conversion of the first that does.
C9_ConvertFormParses ==
  /\ \A a \in DecimalAmounts, t1 \in ConvertTokens, t2 \in ConvertTokens :
       toLowerCase(parsed.input) = "convert " \o a[1] \o " " \o t1 \o " to " \o t2 =>
         parsed.result = [type |-> "convert", amount |-> Num(a[2]),
                          from |-> t1, to |-> t2]
  /\ parsed.input # "" =>
       \A k \in 1..Len(convertPatterns) :
         \A m \in {MatchPattern(toLowerCase(parsed.input), convertPatterns[k])} :
           (/\ m.ok
            /\ \A j \in 1..(k - 1) :
                 ~MatchPattern(toLowerCase(parsed.input), convertPatterns[j]).ok)
           => ConversionOf(m)

\* The call that stored the entry call j could see when it began: the latest
\* store to its URL among the stores done by then; 0 when there is none.
StoredBefore(j) ==
  {i \in 1..Len(fetchLog) :
     /\ fetchLog[i].url = fetchLog[j].url
     /\ fetchLog[i].storeNo > 0
     /\ fetchLog[i].storeNo <= fetchLog[j].seen}

FirstCall(j) ==
  IF StoredBefore(j) = {} THEN 0
  ELSE CHOOSE i \in StoredBefore(j) :
         \A k \in StoredBefore(j) : fetchLog[k].storeNo <= fetchLog[i].storeNo

\* Call j returned the payload of call i without an upstream call.
ServedFrom(j, i) == fetchLog[j].hit /\ fetchLog[j].data = fetchLog[i].data

\* C2 as stated: a call made less than CACHE_TTL after the call that last
\* stored its URL's entry completed is served from that entry, however long
\* that call's upstream fetch took.
C2_SecondCallWithinTtlOfCompletion ==
  \A j \in 1..Len(fetchLog) : \A i \in {FirstCall(j)} :
    (i # 0 /\ fetchLog[j].at - fetchLog[i].end < CACHE_TTL) => ServedFrom(j, i)

\* C2, amended: a call made less than CACHE_TTL after the call that last
\* stored its URL's entry began is served from that entry, and a later one
\* is not.
C2_SecondCallWithinTtlOfStart ==
  \A j \in 1..Len(fetchLog) : \A i \in {FirstCall(j)} :
    i # 0 =>
      (fetchLog[j].at - fetchLog[i].at < CACHE_TTL <=> ServedFrom(j, i))

\* A call served from the entry of a call whose upstream fetch took time and
\* had completed before.
C2_Witness ==
  \E j \in 1..Len(fetchLog) : \E i \in {FirstCall(j)} :
    /\ i # 0
    /\ fetchLog[i].end > fetchLog[i].at
    /\ fetchLog[j].at > fetchLog[i].end
    /\ ServedFrom(j, i)

\* The row the claim gives a line: its four parts in the columns Token,
\* Amount, Currency and Total Price, or the whole line in the first column.
ClaimedRow(line) ==
  IF \E p \in TableLines : LineText(p) = line
  THEN LET p == CHOOSE r \in TableLines : LineText(r) = line
       IN "| " \o p.symbol \o " | " \o p.amount \o " | " \o p.currency \o " | "
            \o p.total \o " |\n"
  ELSE "| " \o line \o " | | | |\n"

RECURSIVE ClaimedRows(_, _)
ClaimedRows(lines, i) ==
  IF i > Len(lines) THEN ""
  ELSE ClaimedRow(lines[i]) \o ClaimedRows(lines, i + 1)

\* C10: renderMarkdown returns the header and then, in input order, one row
\* per line: the four parts of a line that matches the pattern in the columns
\* Token, Amount, Currency and Total Price, and any other line whole in the
\* first column with the other three blank.
C10_OneRowPerLine ==
  rendered # NoRender =>
    rendered.md = MarkdownHeader \o ClaimedRows(rendered.lines, 1)

\* Two lines rendered, one that matches the pattern and one that does not.
C10_Witness ==
  /\ Len(rendered.lines) = 2
  /\ \E p \in TableLines : LineText(p) = rendered.lines[1]
  /\ rendered.lines[2] \in OtherLines
  /\ rendered.md # ""


\* generateAnswer has completed the request in progress.
Completed == req.pc = "done"

\* C4: every call of generateAnswer that completes returns a string, on the
\* conversion, historical and current-price paths and for every upstream
\* outcome.
C4_AlwaysReturnsString == Completed => req.out.t = "string"

\* The request in progress is a price lookup whose date is a calendar day
\* after the local day of the clock.
FutureDated ==
  /\ req.pc # "idle"
  /\ req.q.type = "price"
  /\ req.q.date # NULL
  /\ ValidDate(req.q.date.s)
  /\ DayOf(req.q.date.s) > LocalDay(clock, srv.tz)

\* The request in progress has called cachedFetch, or awaits an upstream fetch.
HasFetched == req.calls # <<>> \/ cf[1] # Idle

\* generateAnswer returned the future-date rejection string for the request.
Rejected ==
  req.out = Str("Cannot retrieve price for future date (" \o req.q.date.s \o ").")

\* C5 as stated: for a price lookup whose date is later than today,
\* generateAnswer makes no fetch and returns the future-date rejection string.
C5_FutureDateRejected ==
  FutureDated => (~HasFetched /\ (Completed => Rejected))

\* C5 amended: for a price lookup with at least one token whose date is later
\* than today, generateAnswer makes no fetch and returns the future-date
\* rejection string; with no token it makes no fetch either.
C5_FutureDateRejectedWithTokens ==
  FutureDated =>
    /\ ~HasFetched
    /\ (Completed /\ Len(req.q.tokens) > 0) => Rejected

\* A future-dated lookup of a known token has been answered.
C5_Witness ==
  /\ FutureDated
  /\ Completed
  /\ Len(req.q.tokens) > 0
  /\ Rejected
  /\ priceCache = EmptyMap

\* A call of load() fails: upstream rejects or answers not ok, or the list it
\* answers with holds an entry that is no coin.
LoadFails ==
  \/ \E c \in 1..MaxLoaders : LoadFail(c)
  \/ \E c \in 1..MaxLoaders, head \in Heads : LoadBroken(c, head)

\* C11: a load() that fails leaves the three maps and lastUpdated unchanged,
\* so that a find, which may run in any state, sees the maps of one complete
\* list.
C11_FailedLoadKeepsDirectory ==
  [][LoadFails => UNCHANGED <<bySymbol, byId, byName, lastUpdated>>]_vars

\* The text part occurs in the text whole.
Occurs(whole, part) == \E p \in 1..Len(whole) : HasAt(whole, p, part)

\* generateAnswer has answered a current price lookup with lines.
CurrentAnswered ==
  /\ Completed
  /\ req.q.type = "price"
  /\ req.q.date = NULL
  /\ req.out.t = "string"
  /\ req.out.s \notin {"No tokens recognized in your query.",
                       "Error fetching price data.",
                       "No price data found for your query."}

\* The head of the detail line of token i in currency j, at the price
\* upstream quotes for the token in that currency.
QuotedLine(q, i, j) ==
  renderLine(q.amounts[i], q.tokens[i],
             Num(PriceIn(q.tokens[i].id, toLowerCase(q.currencies[j]))),
             q.currencies[j], NULL, "")

\* C12: the answer of a current price lookup carries, for every token and
\* every currency asked for, a detail line with the token's price in that
\* currency, on the markets path and on the simple-price path.
C12_EachCurrencyItsPrice ==
  CurrentAnswered =>
    \A i \in 1..Len(req.q.tokens), j \in 1..Len(req.q.currencies) :
      Occurs(req.out.s, QuotedLine(req.q, i, j))

\* What parseQuery returns for the text of the request in progress.
Asked == ParseOnce(req.text, {list \in ServerLists : IndexOf[list] = coinCache})

\* The request in progress is a conversion whose source or target resolves
\* to no coin of the directory.
UnresolvedConversion ==
  /\ req.pc # "idle"
  /\ Asked.type = "convert"
  /\ (find(Asked.from) = NULL \/ find(Asked.to) = NULL)

\* C13: a conversion whose source or target does not resolve is answered
\* "Unknown token: " and the unresolved reference, the source when neither
\* resolves, without a raise and without a fetch.
C13_UnknownTokenNamed ==
  UnresolvedConversion =>
    /\ Completed
    /\ ~HasFetched
    /\ req.out = Str("Unknown token: "
                       \o (IF find(Asked.from) = NULL THEN Asked.from ELSE Asked.to))

\* A conversion of which neither reference resolves has been answered, and
\* so has one of which the target alone does not resolve.
C13_Witness ==
  /\ UnresolvedConversion
  /\ Completed
  /\ find(Asked.from) = NULL
  /\ find(Asked.to) = NULL
  /\ req.out = Str("Unknown token: " \o Asked.from)

\* C14: "AMOUNT TOKEN to FIAT" with a decimal AMOUNT and a fiat code FIAT
\* parses to a price lookup whose currencies are FIAT alone, not to a
\* conversion.
C14_ToFiatIsPriceLookup ==
  \A a \in DecimalAmounts, t \in ConvertTokens, f \in FIAT_CURRENCIES :
    toLowerCase(parsed.input) = a[1] \o " " \o t \o " to " \o f =>
      /\ parsed.result.type = "price"
      /\ parsed.result.currencies = <<f>>

\* The amount the text g of a conversion's amount stands for: the value of a
\* decimal literal, that of a number word, and 1 for any other text.
AmountMeant(g) ==
  IF Len(g) > 0 /\ DecimalEnd(g, 1) = Len(g) THEN NumberOf(g)
  ELSE IF g \in DOMAIN NUMBER_WORDS THEN Num(NUMBER_WORDS[g])
  ELSE Num(Scale)

\* C15: the amount of a conversion is the value of its decimal literal or
\* number word, zero included, and 1 only when the amount text is neither.
C15_ConversionAmount ==
  parsed.result.type = "convert" =>
    \A m \in {MatchConvert(toLowerCase(parsed.input), 1)} :
      parsed.result.amount = AmountMeant(m.groups[1])

RECURSIVE Unsigned(_, _)
\* The text s from position i on without its commas and its minus sign.
Unsigned(s, i) ==
  IF i > Len(s) THEN ""
  ELSE IF Ch(s, i) \in {",", "-"} THEN Unsigned(s, i + 1)
  ELSE Ch(s, i) \o Unsigned(s, i + 1)

\* The text renders the number n (in 1/Scale) in digits.
RendersNumber(text, n) ==
  /\ \A i \in 1..Len(text) : IsDigit(Ch(text, i)) \/ Ch(text, i) \in {",", ".", "-"}
  /\ (n < 0) = (Ch(text, 1) = "-")
  /\ parseFloat(Unsigned(text, 1)) = Num(Abs(n))

\* C16 as stated: formatPrice returns "N/A" exactly for zero and for the
\* values that are no finite number, and no line of renderLine has the
\* total "0".
C16_ZeroShowsNA ==
  /\ formatted.call = "formatPrice" =>
       (formatted.text = "N/A"
          <=> (formatted.num.t # "number" \/ formatted.num = Num(0)))
  /\ formatted.call = "renderLine" => ~Occurs(formatted.text, " = 0 ")

\* C16 amended: formatPrice returns "N/A" exactly for the values that are no
\* finite number, "0" for zero and the number in digits for every other
\* number; the line renderLine returns for the amount 0 of a priced token has
\* the total "0".
C16_ZeroShowsZero ==
  /\ formatted.call = "formatPrice" =>
       /\ formatted.text = "N/A" <=> formatted.num.t # "number"
       /\ formatted.num = Num(0) => formatted.text = "0"
       /\ formatted.num.t = "number" => RendersNumber(formatted.text, formatted.num.n)
  /\ (/\ formatted.call = "renderLine"
      /\ formatted.amount = Num(0)
      /\ formatted.num.t = "number") => Occurs(formatted.text, " = 0 ")

\* formatPrice has been called with zero.
C16_Witness ==
  /\ formatted.call = "formatPrice"
  /\ formatted.num = Num(0)
  /\ formatted.text = "0"

\* The request called the markets endpoint and the call threw.
MarketsFailed ==
  /\ req # Idle
  /\ Len(req.calls) >= 1
  /\ ~req.calls[1].ok
  /\ ~(req.pc = "await" /\ Len(req.calls) = 1)

\* The request called the simple-price endpoint.
FallbackRequested ==
  /\ req # Idle
  /\ \E k \in 1..Len(req.calls) : HasAt(req.calls[k].url, 1, "simple/price")

\* The call of the simple-price endpoint returned a body.
FallbackSucceeded ==
  /\ FallbackRequested
  /\ req.calls[Len(req.calls)].ok
  /\ HasAt(req.calls[Len(req.calls)].url, 1, "simple/price")

\* The body the simple-price call returned.
FallbackBody == MapGet(priceCache, req.calls[Len(req.calls)].url).data

\* The request called the markets endpoint first and the simple-price
\* endpoint when, and only when, that call threw, and then no other.
FallbackOnFailureOnly ==
  req # Idle =>
    /\ Len(req.calls) <= 2
    /\ Len(req.calls) >= 1 => HasAt(req.calls[1].url, 1, "coins/markets")
    /\ FallbackRequested <=> MarketsFailed
    /\ Len(req.calls) = 2 =>
         req.calls[2].url = SimplePriceUrl(Ids(req.q.tokens), Join(req.q.currencies, ","))

\* The answer is made of the prices of the simple-price body: a price lookup
\* shows every token at its price in the first currency, a conversion the
\* ratio of the two usd prices.
AnswersFromFallback ==
  /\ req.out.t = "string"
  /\ IF req.q.type = "convert"
     THEN req.out.s = ConvertText(req.q, req.asMarkdown,
                                  Num(UsdPrice(req.q.tokens[1].id)),
                                  Num(UsdPrice(req.q.tokens[2].id)))
     ELSE \A i \in 1..Len(req.q.tokens) :
            Occurs(req.out.s, QuotedLine(req.q, i, 1))

\* Both calls threw: the path returns its error string.
BothFailAnswered ==
  (Completed /\ Len(req.calls) = 2 /\ ~req.calls[1].ok /\ ~req.calls[2].ok)
    => req.out = ErrorText(req)

\* C17 as stated: the simple-price endpoint is requested exactly when the
\* markets call fails; whenever the simple-price call succeeds its reshaped
\* result is returned, so the path does not end with its error string; when
\* both calls fail the path returns its error string.
C17_FallbackResultReturned ==
  /\ FallbackOnFailureOnly
  /\ (Completed /\ FallbackSucceeded) => req.out # ErrorText(req)
  /\ BothFailAnswered

\* C17 amended: the simple-price endpoint is requested exactly when the
\* markets call fails, never when it returns from cache or upstream; when the
\* simple-price call succeeds with an object of prices the answer is made of
\* them, when it succeeds with null the reshaping throws and the path returns
\* its error string, as it does when both calls fail.
C17_FallbackOnFailure ==
  /\ FallbackOnFailureOnly
  /\ (Completed /\ FallbackSucceeded) =>
       IF FallbackBody = NULL THEN req.out = ErrorText(req) ELSE AnswersFromFallback
  /\ BothFailAnswered

\* A second request whose markets call threw and whose simple-price call
\* returned prices is answered from them.
C17_Witness ==
  /\ srv.served = 1
  /\ Completed
  /\ MarketsFailed
  /\ FallbackSucceeded
  /\ FallbackBody # NULL
  /\ AnswersFromFallback

\* Call k of cachedFetch ends in this step, in state st.
Ends(k, st) ==
  /\ k \in 1..Len(fetchLog)
  /\ fetchLog[k].state = "pending"
  /\ fetchLog'[k].state = st

\* This step stores what a call that began at the time at, and returns data
\* in this step, fetched for its url.
StoresFetched ==
  \E k \in 1..Len(fetchLog) :
    /\ Ends(k, "returned")
    /\ priceCache' = MapSet(priceCache, fetchLog[k].url,
                            [data |-> fetchLog'[k].data,
                             expiry |-> fetchLog[k].at + CACHE_TTL])

\* C18: a call of cachedFetch whose upstream response is not successful
\* throws and leaves the price cache as it is (no entry made for its url, an
\* expired entry kept with its payload and expiry); the cache changes only
\* when a fetch succeeds, by the entry of the payload fetched with the expiry
\* CACHE_TTL after the time the call read when it began.
C18_FailureKeepsCache ==
  [][ /\ (\E k \in 1..Len(fetchLog) : Ends(k, "threw")) => priceCache' = priceCache
      /\ priceCache' # priceCache => StoresFetched
      /\ (\E k \in 1..Len(fetchLog) : Ends(k, "returned")) => StoresFetched ]_vars

\* A call for a url with an expired entry threw, and the entry is the one an
\* earlier call stored; a call for a url without an entry threw, and there
\* is none.
C18_Witness ==
  \E j, k \in 1..Len(fetchLog) :
    /\ j < k
    /\ fetchLog[j].storeNo > 0
    /\ fetchLog[k].url = fetchLog[j].url
    /\ fetchLog[k].state = "threw"
    /\ fetchLog[k].at >= fetchLog[j].at + CACHE_TTL
    /\ MapGet(priceCache, fetchLog[k].url) =
         [data |-> fetchLog[j].data, expiry |-> fetchLog[j].at + CACHE_TTL]

\* Call j had not stored when call k began (it was in flight, or began later).
NotStoredBefore(j, k) ==
  fetchLog[j].storeNo = 0 \/ fetchLog[j].storeNo > fetchLog[k].seen

\* Calls j and k for one url found no valid entry and interleave: k began
\* after j and before any call stored an entry for the url.
Interleaved(j, k) ==
  /\ j < k
  /\ fetchLog[j].url = fetchLog[k].url
  /\ ~fetchLog[j].hit
  /\ \A i \in 1..Len(fetchLog) :
       (fetchLog[i].url = fetchLog[k].url /\ fetchLog[i].storeNo > 0)
         => (fetchLog[i].storeNo <= fetchLog[j].seen \/ NotStoredBefore(i, k))

\* The calls that have stored an entry for url.
Storers(url) ==
  {i \in 1..Len(fetchLog) : fetchLog[i].url = url /\ fetchLog[i].storeNo > 0}

\* The entry for url is the one of the call that stored last.
LastWriterWins(url) ==
  \A i \in Storers(url) :
    (\A h \in Storers(url) : fetchLog[h].storeNo <= fetchLog[i].storeNo)
      => MapGet(priceCache, url) =
           [data |-> fetchLog[i].data, expiry |-> fetchLog[i].at + CACHE_TTL]

SpelledAmounts(words) ==
  [i \in 1..Len(SelectSeq(words, LAMBDA w : w \in DOMAIN NUMBER_WORDS)) |->
     Num(NUMBER_WORDS[SelectSeq(words, LAMBDA w : w \in DOMAIN NUMBER_WORDS)[i]])]

\* The raw amount list of the text t (lower case, its date taken out): the
\* values of its decimal literals, else those of its number words.
RawList(t) ==
  IF Len(LiteralsFrom(t, 1)) > 0
  THEN [i \in 1..Len(LiteralsFrom(t, 1)) |-> NumberOf(LiteralsFrom(t, 1)[i])]
  ELSE SpelledAmounts(WordsFrom(t, 1))

\* The raw amount list of the input of the call of parseQuery.
RawOfInput ==
  RawList(WithoutDate(toLowerCase(parsed.input), DatePos(toLowerCase(parsed.input))))

\* The amounts of n tokens for the raw amount list A.
Aligned(A, n) ==
  CASE Len(A) = 0 -> [i \in 1..n |-> Num(Scale)]
    [] Len(A) = 1 /\ n > 1 -> [i \in 1..n |-> A[1]]
    [] 1 < Len(A) /\ Len(A) < n -> A \o [i \in 1..(n - Len(A)) |-> A[1]]
    [] Len(A) > n -> SubSeq(A, 1, n)
    [] OTHER -> A

\* C20: the amounts of a price lookup are the raw amount list of the text
\* (its decimal literals, else its number words, in text order) aligned with
\* the tokens: all 1 when the list is empty, its one element for every token,
\* the list padded with its first element, the list cut to the number of
\* tokens, or the list itself.
C20_AmountsAligned ==
  parsed.result.type = "price" =>
    parsed.result.amounts = Aligned(RawOfInput, Len(parsed.result.tokens))

\* The latest find was called with a key of the alias table, in any casing.
AliasRef == found.ref # "" /\ toLowerCase(found.ref) \in DOMAIN TOKEN_ALIASES

\* The id the alias table gives for the reference of the latest find.
AliasTarget == TOKEN_ALIASES[toLowerCase(found.ref)]

\* Some symbol of the directory is at edit distance below 3 from the
\* reference of the latest find.
SymbolNear ==
  \E i \in 1..Len(bySymbol.entries) :
    levenshtein(toLowerCase(found.ref), bySymbol.entries[i].k) < 3

\* C21: for a reference that is a key of the alias table, find returns the
\* coin the directory keeps under the id the alias names, and none when it
\* keeps no coin under that id, whatever coin has the reference as its
\* symbol, id or name and whatever symbols are near it.
C21_AliasDecides ==
  AliasRef =>
    IF MapHas(byId, AliasTarget)
    THEN /\ found.coin = MapGet(byId, AliasTarget)
         /\ toLowerCase(found.coin.id) = AliasTarget
    ELSE found.coin = NULL

\* find("btc") on a directory whose symbol btc belongs to another coin
\* returned bitcoin.
C21_Witness ==
  /\ AliasRef
  /\ MapHas(bySymbol, toLowerCase(found.ref))
  /\ MapGet(bySymbol, toLowerCase(found.ref)).id # AliasTarget
  /\ found.coin # NULL
  /\ found.coin.id = AliasTarget

\* The edit distance from the reference of the latest find to the symbol of
\* coin k of the upstream list.
DistanceTo(list, k) ==
  levenshtein(toLowerCase(found.ref), toLowerCase(list.coins[k].symbol))

\* Coin k of the upstream list is the first of the coins whose symbol is
\* nearest to the reference.
FirstNearest(list, k) ==
  \A h \in 1..Len(list.coins) :
    /\ DistanceTo(list, h) >= DistanceTo(list, k)
    /\ h < k => DistanceTo(list, h) > DistanceTo(list, k)

\* The upstream lists the directory was loaded from.
LoadedFrom == {list \in CoinLists : IndexOf[list] = coinCache}

\* C22: when find reaches the fuzzy scan and some symbol is at edit distance
\* below 3, it returns the coin of the upstream list whose symbol is at the
\* least distance, and of several at that distance the first of the list (of
\* two coins with one symbol the first is the one kept).
C22_FirstNearestSymbol ==
  (ReachesFuzzyScan /\ SymbolNear) =>
    \A list \in LoadedFrom :
      \E k \in 1..Len(list.coins) : FirstNearest(list, k) /\ found.coin = list.coins[k]

\* The scan met two symbols at the least distance, the first of them kept
\* for two coins of the list, and find returned the first coin.
C22_Witness ==
  /\ ReachesFuzzyScan
  /\ SymbolNear
  /\ \E list \in LoadedFrom :
       \E k, h, g \in 1..Len(list.coins) :
         /\ FirstNearest(list, k)
         /\ found.coin = list.coins[k]
         /\ k < h
         /\ h < g
         /\ list.coins[h].symbol = list.coins[k].symbol
         /\ list.coins[g].symbol # list.coins[k].symbol
         /\ DistanceTo(list, g) = DistanceTo(list, k)

\* The request is a price lookup with a date that is not after today: it
\* is on the historical path.
DatedLookup == req # Idle /\ req.stage = "history"

\* The payload the historical fetch of token k returned, null when it failed.
HistoryBody(k) ==
  IF req.calls[k].ok THEN MapGet(priceCache, req.calls[k].url).data ELSE NULL

\* The historical price of token k in currency j.
HistoryPrice(k, j) ==
  Get(Get(Get(HistoryBody(k), "market_data"), "current_price"), req.q.currencies[j])

\* The line of token k in currency j is a detail line at the historical
\* price, or the "No historical price" line when there is no positive price.
CurrencyLine(line, k, j) ==
  IF HistoryPrice(k, j).t = "number" /\ HistoryPrice(k, j).n > 0
  THEN HasAt(line, 1, renderLine(req.q.amounts[k], req.q.tokens[k], HistoryPrice(k, j),
                                 req.q.currencies[j], Str(req.q.date.s), ""))
  ELSE line = "No historical price for " \o toUpperCase(req.q.tokens[k].symbol)
                \o " in " \o toUpperCase(req.q.currencies[j]) \o " on "
                \o req.q.date.s \o "."

RECURSIVE TokenLines(_, _, _)
\* lines, from line p on, are the lines of the tokens from token k on: for
\* each token one "No historical data" line, or one line for each currency.
TokenLines(lines, p, k) ==
  IF k > Len(req.q.tokens) THEN p = Len(lines) + 1
  ELSE IF NoMarketData(HistoryBody(k))
  THEN /\ p <= Len(lines)
       /\ lines[p] = "No historical data for " \o toUpperCase(req.q.tokens[k].symbol)
                        \o " on " \o req.q.date.s \o "."
       /\ TokenLines(lines, p + 1, k + 1)
  ELSE /\ p + Len(req.q.currencies) - 1 <= Len(lines)
       /\ \A j \in 1..Len(req.q.currencies) : CurrencyLine(lines[p + j - 1], k, j)
       /\ TokenLines(lines, p + Len(req.q.currencies), k + 1)

\* The historical fetches are those of the tokens, in token order, and the
\* one awaited is the last.
FetchedInTokenOrder ==
  /\ Len(req.calls) <= Len(req.q.tokens)
  /\ \A k \in 1..Len(req.calls) :
       req.calls[k].url = HistoryUrl(req.q.tokens[k].id, req.q.date.s)
  /\ req.pc = "await" => (Len(req.calls) = req.i /\ cf[1].url = req.calls[req.i].url)
  /\ Completed /\ req.out # Raised => Len(req.calls) = Len(req.q.tokens)

\* The answer of the historical path is the rendering of its lines, which
\* are those of the tokens in token order.
HistoryAnswered ==
  /\ req.out.t = "string"
  /\ req.out.s = Rendered(req, req.lines)
  /\ TokenLines(req.lines, 1, 1)

\* C23: a price lookup with a date that is not after today fetches the
\* history of its tokens one at a time in token order, the fetch of a token
\* beginning only when that of the token before it has ended; its answer
\* lists for each token, in token order, one "No historical data" line (the
\* fetch failed or the payload has no market data) or one line for each
\* currency in currency order (a detail line, or a "No historical price" line
\* for a price that is missing or not positive), and is never the error
\* string of the other paths.
C23_HistoryInTokenOrder ==
  /\ [](DatedLookup => FetchedInTokenOrder)
  /\ []((DatedLookup /\ Completed) => HistoryAnswered)
  /\ [][(req # Idle /\ req' # Idle /\ DatedLookup /\ Len(req'.calls) > Len(req.calls))
          => req.pc = "await"]_vars

\* The last successful load is COIN_LIST_TTL old or older.
StaleDirectory == ~LaterThan(lastUpdated, COIN_LIST_TTL, clock)

\* A request arrives in this step: parseQuery and generateAnswer consult the
\* directory for its words.
Arrives == req = Idle /\ req' # Idle

\* C24: a request that arrives when the last successful load of the
\* directory is older than its TTL causes a new load of the coin list.
C24_StaleDirectoryReloaded ==
  [][(Arrives /\ StaleDirectory) => (loadPc'[1] = "fetching" \/ lastCall' # lastCall)]_vars

\* The word is made of digits only.
AllDigits(w) == \A i \in 1..Len(w) : IsDigit(Ch(w, i))

\* The valid words of the text t that are not made of digits only.
NamingWords(t) ==
  SelectSeq(WordsFrom(t, 1), LAMBDA w : isValidWord(w) /\ ~AllDigits(w))

\* The tokens that the words of the input which are no numbers name, or the
\* bitcoin default when they name none.
NamedTokens ==
  DefaultToken(coinCache,
    ResolveWords(coinCache,
      NamingWords(WithoutDate(toLowerCase(parsed.input), DatePos(toLowerCase(parsed.input)))),
      1, <<>>, <<>>).tokens)

\* C25: the tokens of a price lookup are the coins that the words of the text
\* which are not made of digits name (or the bitcoin default): a word of
\* digits is an amount and is never resolved to a coin, so on a directory
\* that lists dogecoin "price of 10 doge" has the one token dogecoin.
C25_DigitsNameNoToken ==
  parsed.result.type = "price" =>
    /\ parsed.result.tokens = NamedTokens
    /\ (parsed.input = "price of 10 doge" /\ MapHas(byId, "dogecoin"))
         => (Len(parsed.result.tokens) = 1 /\ parsed.result.tokens[1].id = "dogecoin")

====
